---- MODULE Spec2Model ----
(***************************************************************************)
(* Model of the SIEM AI Agent backend (backend/server): the in-memory      *)
(* query executor of SIEMConnector, its backend routing, and the /query    *)
(* handlers that drive it.                                                 *)
(*                                                                         *)
(* Python values are tagged records; a Python str is a tuple of one-       *)
(* character strings so that lower(), str() and substring tests are        *)
(* computed, not assumed.  A Python dict whose keys are fixed words is a   *)
(* TLA+ function over those words; a dict of which only the first item is  *)
(* read (the body of term/terms/match/range) is the sequence of its items  *)
(* in insertion order.                                                     *)
(***************************************************************************)
EXTENDS Integers, Sequences, FiniteSets, TLC

VARIABLES
    mock_data,          \* SIEMConnector.mock_data: the in-memory corpus
    use_mock_data,      \* SIEMConnector.use_mock_data
    connection_status,  \* SIEMConnector.connection_status
    es_client,          \* SIEMConnector.es_client is set (TRUE) or None (FALSE)
    sessions,           \* ContextManager.sessions
    now,                \* the wall clock read by datetime.now(), in hours
    request,            \* the request in flight
    last                \* what the last operation did and returned

vars == <<mock_data, use_mock_data, connection_status, es_client, sessions, now,
          request, last>>

-----------------------------------------------------------------------------
(* Python values *)

PyNone == [t |-> "none"]
PyInt(n) == [t |-> "int", n |-> n]
PyStrV(s) == [t |-> "str", s |-> s]
PyList(l) == [t |-> "list", l |-> l]
PyDict(d) == [t |-> "dict", d |-> d]

\* the outcome of a call: a returned value or a raised exception
Ok(v) == [ok |-> TRUE, val |-> v]
Raise(e) == [ok |-> FALSE, exc |-> e]

Min(a, b) == IF a <= b THEN a ELSE b

\* dict.get(key) with the default None
DictGet(v, key) == IF key \in DOMAIN v.d THEN v.d[key] ELSE PyNone

-----------------------------------------------------------------------------
(* Python strings *)

\* the characters in code-point order (the part of ASCII the model uses)
Alphabet ==
    <<" ", "'", "+", ",", "-", ".", "/", "0", "1", "2", "3", "4", "5",
      "6", "7", "8", "9", "A", "B", "C", "D", "E", "F", "G", "H", "I",
      "J", "K", "L", "M", "N", "O", "P", "Q", "R", "S", "T", "U", "V",
      "W", "X", "Y", "Z", "[", "]", "_", "a", "b", "c", "d", "e", "f",
      "g", "h", "i", "j", "k", "l", "m", "n", "o", "p", "q", "r", "s",
      "t", "u", "v", "w", "x", "y", "z">>

Ord(c) == CHOOSE i \in 1..Len(Alphabet) : Alphabet[i] = c

UpperLetters ==
    <<"A", "B", "C", "D", "E", "F", "G", "H", "I", "J", "K", "L", "M",
      "N", "O", "P", "Q", "R", "S", "T", "U", "V", "W", "X", "Y", "Z">>

LowerLetters ==
    <<"a", "b", "c", "d", "e", "f", "g", "h", "i", "j", "k", "l", "m",
      "n", "o", "p", "q", "r", "s", "t", "u", "v", "w", "x", "y", "z">>

\* str.lower() on one character
LowerChar(c) ==
    IF \E i \in 1..26 : UpperLetters[i] = c
    THEN LowerLetters[CHOOSE i \in 1..26 : UpperLetters[i] = c]
    ELSE c

\* str.lower()
Lower(s) == [i \in 1..Len(s) |-> LowerChar(s[i])]

\* a in b for two str: a occurs in b as a contiguous substring
Contains(b, a) ==
    \E i \in 0..(Len(b) - Len(a)) :
        \A j \in 1..Len(a) : b[i + j] = a[j]

Digits == <<"0", "1", "2", "3", "4", "5", "6", "7", "8", "9">>

IsDigitChar(c) == \E i \in 1..10 : Digits[i] = c

DigitVal(c) == (CHOOSE i \in 1..10 : Digits[i] = c) - 1

\* str(n) for an int
RECURSIVE IntStr(_)
IntStr(n) ==
    IF n < 0 THEN <<"-">> \o IntStr(0 - n)
    ELSE IF n < 10 THEN <<Digits[n + 1]>>
    ELSE IntStr(n \div 10) \o <<Digits[(n % 10) + 1]>>

\* str(v): a str is itself, None is 'None', a list is the repr of its items
RECURSIVE PyStr(_)
PyRepr(v) == IF v.t = "str" THEN <<"'">> \o v.s \o <<"'">> ELSE PyStr(v)

RECURSIVE JoinRepr(_)
JoinRepr(l) ==
    IF l = <<>> THEN <<>>
    ELSE IF Len(l) = 1 THEN PyRepr(l[1])
    ELSE PyRepr(l[1]) \o <<",", " ">> \o JoinRepr(Tail(l))

PyStr(v) ==
    CASE v.t = "str" -> v.s
      [] v.t = "int" -> IntStr(v.n)
      [] v.t = "none" -> <<"N", "o", "n", "e">>
      [] v.t = "list" -> <<"[">> \o JoinRepr(v.l) \o <<"]">>

\* three-way comparison of two str by code points: -1, 0 or 1
RECURSIVE StrCmp(_, _)
StrCmp(a, b) ==
    IF a = <<>> /\ b = <<>> THEN 0
    ELSE IF a = <<>> THEN -1
    ELSE IF b = <<>> THEN 1
    ELSE IF Ord(Head(a)) < Ord(Head(b)) THEN -1
    ELSE IF Ord(Head(a)) > Ord(Head(b)) THEN 1
    ELSE StrCmp(Tail(a), Tail(b))

\* a < b, a <= b, ... between two Python values: -1, 0, 1, or 2 for the
\* TypeError that an unorderable pair raises
PyCmp(a, b) ==
    IF a.t = "int" /\ b.t = "int"
    THEN (IF a.n < b.n THEN -1 ELSE IF a.n > b.n THEN 1 ELSE 0)
    ELSE IF a.t = "str" /\ b.t = "str" THEN StrCmp(a.s, b.s)
    ELSE 2

-----------------------------------------------------------------------------
(* SIEMConnector: the predicate engine (siem_connector.py) *)

\* field_path.split('.'): a field path is the sequence of its words and
\* "." separators, e.g. <<"rule", ".", "id">>
RECURSIVE Split(_)
Split(field_path) ==
    IF field_path = <<>> THEN <<>>
    ELSE IF Head(field_path) = "." THEN Split(Tail(field_path))
    ELSE <<Head(field_path)>> \o Split(Tail(field_path))

\* key.isdigit() and int(key), for the one-digit list indices the model uses
IsDigitKey(key) == IsDigitChar(key)

\* the loop of _get_nested_value over the keys of the path
RECURSIVE WalkPath(_, _)
WalkPath(value, keys) ==
    IF keys = <<>> THEN value
    ELSE IF value.t = "dict"
         THEN WalkPath(DictGet(value, Head(keys)), Tail(keys))
    ELSE IF value.t = "list" /\ IsDigitKey(Head(keys))
         THEN IF DigitVal(Head(keys)) < Len(value.l)
              THEN WalkPath(value.l[DigitVal(Head(keys)) + 1], Tail(keys))
              ELSE PyNone   \* IndexError, caught
    ELSE PyNone

_get_nested_value(item, field_path) == WalkPath(item, Split(field_path))

\* the four bound checks of _value_in_range, in the order of the code; a
\* comparison that raises TypeError makes the whole check False
_value_in_range(value, range_config) ==
    LET has(k) == k \in DOMAIN range_config
        c(k) == PyCmp(value, range_config[k])
    IN  IF has("gte") /\ c("gte") \in {-1, 2} THEN FALSE
        ELSE IF has("gt") /\ c("gt") \in {-1, 0, 2} THEN FALSE
        ELSE IF has("lte") /\ c("lte") \in {1, 2} THEN FALSE
        ELSE IF has("lt") /\ c("lt") \in {0, 1, 2} THEN FALSE
        ELSE TRUE

\* x in values, for the values of a terms clause: a list (membership by ==)
\* or a str (substring test, TypeError unless x is a str); anything else is
\* not a container.  0 no, 1 yes, 2 TypeError
PyIn(x, values) ==
    CASE values.t = "list" ->
            IF \E i \in 1..Len(values.l) : values.l[i] = x THEN 1 ELSE 0
      [] values.t = "str" ->
            IF x.t # "str" THEN 2
            ELSE IF Contains(values.s, x.s) THEN 1 ELSE 0
      [] OTHER -> 2

\* value.lower() in str(found).lower(), the test of a match clause
MatchTest(found, value) == Contains(Lower(PyStr(found)), Lower(value.s))

\* _apply_condition: the records of data that satisfy one condition, or the
\* exception the evaluation raises
_apply_condition(data, condition) ==
    IF "match_all" \in DOMAIN condition THEN Ok(data)
    ELSE IF "term" \in DOMAIN condition THEN
        IF condition["term"] = <<>> THEN Raise("StopIteration")
        ELSE LET field == condition["term"][1].k
                 value == condition["term"][1].v
             IN  Ok(SelectSeq(data,
                     LAMBDA item : _get_nested_value(item, field) = value))
    ELSE IF "terms" \in DOMAIN condition THEN
        IF condition["terms"] = <<>> THEN Raise("StopIteration")
        ELSE LET field == condition["terms"][1].k
                 values == condition["terms"][1].v
                 test(item) == PyIn(_get_nested_value(item, field), values)
             IN  IF \E i \in 1..Len(data) : test(data[i]) = 2
                 THEN Raise("TypeError")
                 ELSE Ok(SelectSeq(data, LAMBDA item : test(item) = 1))
    ELSE IF "match" \in DOMAIN condition THEN
        IF condition["match"] = <<>> THEN Raise("StopIteration")
        ELSE LET field == condition["match"][1].k
                 value == condition["match"][1].v
             IN  IF value.t # "str"
                 THEN (IF data = <<>> THEN Ok(<<>>)
                       ELSE Raise("AttributeError"))
                 ELSE Ok(SelectSeq(data,
                         LAMBDA item :
                             MatchTest(_get_nested_value(item, field), value)))
    ELSE IF "range" \in DOMAIN condition THEN
        IF condition["range"] = <<>> THEN Raise("StopIteration")
        ELSE LET field == condition["range"][1].k
                 range_config == condition["range"][1].v
             IN  Ok(SelectSeq(data,
                     LAMBDA item :
                         _value_in_range(_get_nested_value(item, field),
                                         range_config)))
    ELSE Ok(data)

\* a for-loop that narrows the data by each condition in turn (must, filter);
\* r is the data so far, or the exception already raised
RECURSIVE ApplyEach(_, _)
ApplyEach(r, conditions) ==
    IF ~r.ok \/ conditions = <<>> THEN r
    ELSE ApplyEach(_apply_condition(r.val, Head(conditions)), Tail(conditions))

\* should_results.extend(r)
Extend(should_results, r) ==
    IF r.ok THEN Ok(should_results.val \o r.val) ELSE r

\* the should loop: every condition is applied to the whole of data and the
\* results are concatenated
RECURSIVE ShouldResults(_, _, _)
ShouldResults(data, conditions, should_results) ==
    IF ~should_results.ok \/ conditions = <<>> THEN should_results
    ELSE ShouldResults(data, Tail(conditions),
                       Extend(should_results,
                              _apply_condition(data, Head(conditions))))

\* [x for x in should_results if x["event_id"] not in seen and not seen.add(...)]
RECURSIVE DedupeScan(_, _, _)
DedupeScan(should_results, seen, acc) ==
    IF should_results = <<>> THEN Ok(acc)
    ELSE IF "event_id" \notin DOMAIN Head(should_results).d THEN Raise("KeyError")
    ELSE IF Head(should_results).d["event_id"] \in seen
         THEN DedupeScan(Tail(should_results), seen, acc)
         ELSE DedupeScan(Tail(should_results),
                         seen \cup {Head(should_results).d["event_id"]},
                         Append(acc, Head(should_results)))

Dedupe(should_results) ==
    IF should_results.ok THEN DedupeScan(should_results.val, {}, <<>>)
    ELSE should_results

\* dict.get(key, default) on a dict that is a function over its keys
GetOr(d, key, default) == IF key \in DOMAIN d THEN d[key] ELSE default

EmptyDict == [k \in {} |-> PyNone]

\* the should step (lines 335-344): with should conditions, what the must
\* conditions left is replaced by the de-duplicated should results
ShouldStep(data, filtered_data, should_conditions) ==
    IF ~filtered_data.ok \/ should_conditions = <<>> THEN filtered_data
    ELSE Dedupe(ShouldResults(data, should_conditions, Ok(<<>>)))

\* _apply_mock_filters: must, then should, then filter; only the "bool" key
\* of the query node is read
_apply_mock_filters(data, dsl_query) ==
    LET bool_query == GetOr(GetOr(dsl_query, "query", EmptyDict), "bool", EmptyDict)
    IN  ApplyEach(ShouldStep(data,
                             ApplyEach(Ok(data), GetOr(bool_query, "must", <<>>)),
                             GetOr(bool_query, "should", <<>>)),
                  GetOr(bool_query, "filter", <<>>))

-----------------------------------------------------------------------------
(* SIEMConnector: the Dataset Query Executor (_query_mock_data) *)

\* Timestamps are written in a scaled-down ISO-8601: one digit for the local
\* time in hours, then nothing (a naive time), "Z", or a sign and one digit
\* for the UTC offset in hours.  "3+2" is the instant 1, "2Z" the instant 2.

\* str.replace("Z", "+00:00"); the zero offset is written "+0" here
RECURSIVE ReplaceZ(_)
ReplaceZ(s) ==
    IF s = <<>> THEN <<>>
    ELSE IF Head(s) = "Z" THEN <<"+", "0">> \o ReplaceZ(Tail(s))
    ELSE <<Head(s)>> \o ReplaceZ(Tail(s))

\* datetime.fromisoformat: a naive or an aware datetime, or ValueError
FromIsoFormat(s) ==
    IF Len(s) = 1 /\ IsDigitChar(s[1])
    THEN Ok([aware |-> FALSE, t |-> DigitVal(s[1])])
    ELSE IF Len(s) = 3 /\ IsDigitChar(s[1]) /\ s[2] \in {"+", "-"}
            /\ IsDigitChar(s[3])
    THEN Ok([aware |-> TRUE,
             t |-> IF s[2] = "+" THEN DigitVal(s[1]) - DigitVal(s[3])
                                 ELSE DigitVal(s[1]) + DigitVal(s[3])])
    ELSE Raise("ValueError")

\* the sort key: datetime.fromisoformat(x["timestamp"].replace("Z", "+00:00"))
SortKey(x) ==
    IF "timestamp" \notin DOMAIN x.d THEN Raise("KeyError")
    ELSE IF x.d["timestamp"].t # "str" THEN Raise("AttributeError")
    ELSE FromIsoFormat(ReplaceZ(x.d["timestamp"].s))

\* one step of a stable sort over positions: position i goes behind every
\* position whose key does not have to come after its own
RECURSIVE InsertByKey(_, _, _, _)
InsertByKey(sorted, i, keys, reverse) ==
    IF sorted = <<>> THEN <<i>>
    ELSE IF (IF reverse THEN keys[Head(sorted)].val.t >= keys[i].val.t
                        ELSE keys[Head(sorted)].val.t <= keys[i].val.t)
         THEN <<Head(sorted)>> \o InsertByKey(Tail(sorted), i, keys, reverse)
         ELSE <<i>> \o sorted

\* a sort that ignores reverse and always sorts ascending
RECURSIVE StableSortAscending(_, _, _)
StableSortAscending(n, keys, reverse) ==
    IF n = 0 THEN <<>>
    ELSE InsertByKey(StableSortAscending(n - 1, keys, reverse), n, keys, FALSE)

\* the positions 1..n in sorted order
RECURSIVE StableSort(_, _, _)
StableSort(n, keys, reverse) ==
    IF n = 0 THEN <<>>
    ELSE InsertByKey(StableSort(n - 1, keys, reverse), n, keys, reverse)

Permute(data, order) == [j \in 1..Len(order) |-> data[order[j]]]

\* the first exception among the keys
FirstRaised(keys) ==
    keys[CHOOSE i \in 1..Len(keys) :
             ~keys[i].ok /\ \A j \in 1..(i - 1) : keys[j].ok]

\* list.sort with the keys already computed: comparing a naive with an aware
\* datetime raises TypeError, and a list that holds both cannot be sorted
\* without one
SortWithKeys(data, keys, reverse) ==
    IF \E i \in 1..Len(keys) : ~keys[i].ok THEN FirstRaised(keys)
    ELSE IF \E i, j \in 1..Len(keys) : keys[i].val.aware # keys[j].val.aware
    THEN Raise("TypeError")
    ELSE Ok(Permute(data, StableSort(Len(data), keys, reverse)))

\* list.sort(key=..., reverse=...): the key of every element is computed
\* first, in list order
SortByTimestamp(data, reverse) ==
    SortWithKeys(data, [i \in 1..Len(data) |-> SortKey(data[i])], reverse)

DefaultSize == 20

\* the sort step of _query_mock_data (lines 288-299); filtered_data is the
\* filtered list, or the exception the filter raised
ApplySort(filtered_data, dsl_query) ==
    LET default == <<[k |-> "timestamp", v |-> [order |-> "desc"]]>>
        sort_config == GetOr(dsl_query, "sort", default)
    IN  IF ~filtered_data.ok \/ sort_config = <<>> THEN filtered_data
        ELSE LET sort_field == sort_config[1].k
                 sort_order == GetOr(sort_config[1].v, "order", "desc")
                 reverse_sort == (sort_order = "desc")
             IN  IF sort_field = "timestamp"
                 THEN SortByTimestamp(filtered_data.val, reverse_sort)
                 ELSE filtered_data

\* _map_level_to_severity
_map_level_to_severity(level) ==
    IF level >= 10 THEN "critical"
    ELSE IF level >= 8 THEN "high"
    ELSE IF level >= 5 THEN "medium"
    ELSE IF level > 0 THEN "low"
    ELSE "none"

\* _convert_mock_data_to_log_result: the LogResult of a corpus record (the
\* display-only fields user, destination_ip, source_system and details are
\* left out)
_convert_mock_data_to_log_result(item) ==
    LET rule_info == GetOr(item.d, "rule", PyDict(EmptyDict))
        data_info == GetOr(item.d, "data", PyDict(EmptyDict))
    IN  [timestamp |-> GetOr(item.d, "timestamp", PyStrV(<<"N", "/", "A">>)),
         event_id |-> GetOr(item.d, "event_id", PyStrV(<<"m", "o", "c", "k">>)),
         source_ip |-> DictGet(data_info, "srcip"),
         rule_id |-> PyStr(GetOr(rule_info.d, "id", PyStrV(<<>>))),
         rule_description |->
             GetOr(rule_info.d, "description", PyStrV(<<"N", "o">>)),
         severity |-> _map_level_to_severity(GetOr(rule_info.d, "level", PyInt(0)).n),
         raw_data |-> item]

\* data[:size + 1]: one record too many
TakeOneMore(data, size) == SubSeq(data, 1, Min(size + 1, Len(data)))

\* data[:size]
Take(data, size) == SubSeq(data, 1, Min(size, Len(data)))

\* [self._convert_mock_data_to_log_result(item) for item in results_data]
ConvertAll(results_data) ==
    [i \in 1..Len(results_data) |->
        _convert_mock_data_to_log_result(results_data[i])]

\* lines 301-321: count, truncate to size, convert, build the stats
\* (query_time_ms is not modelled)
Paginate(filtered_data, dsl_query) ==
    IF ~filtered_data.ok THEN filtered_data
    ELSE Ok([results |->
                 ConvertAll(Take(filtered_data.val,
                                 GetOr(dsl_query, "size", DefaultSize))),
             stats |->
                 [total_hits |-> Len(filtered_data.val),
                  indices_searched |-> <<"mock-data">>,
                  dsl_query |-> dsl_query]])

\* _query_mock_data: filter, sort, truncate, convert; the pair (results,
\* stats) or the exception that escapes
_query_mock_data(corpus, dsl_query) ==
    Paginate(ApplySort(_apply_mock_filters(corpus, dsl_query), dsl_query),
             dsl_query)

\* filtered_data = self.mock_data: the filters start from the corpus itself
StartsFromCorpus == FALSE

\* filtered_data = self.mock_data.copy() (line 282): the filters start from
\* a new list, not from the list object that is the corpus
StartsFromCopy == TRUE

\* _apply_condition returns the list it was given (match_all, unknown key)
\* and a new list in every other case
ReturnsData(condition) ==
    \/ "match_all" \in DOMAIN condition
    \/ DOMAIN condition \cap {"term", "terms", "match", "range"} = {}

\* _apply_mock_filters returns the very list it was given: no should
\* conditions, and every must and filter condition hands its input back
ReturnsArgument(bool_query) ==
    /\ GetOr(bool_query, "should", <<>>) = <<>>
    /\ \A key \in {"must", "filter"} :
           \A i \in 1..Len(GetOr(bool_query, key, <<>>)) :
               ReturnsData(bool_query[key][i])

\* r.val, or default when r is an exception
ValueOr(r, default) == IF r.ok THEN r.val ELSE default

\* the corpus list after _query_mock_data.  filtered_data.sort (line 296)
\* sorts in place, so it reorders the corpus exactly when the list it sorts
\* is the corpus object itself
CorpusAfter(corpus, dsl_query) ==
    IF StartsFromCopy
       \/ ~ReturnsArgument(GetOr(GetOr(dsl_query, "query", EmptyDict),
                                 "bool", EmptyDict))
    THEN corpus
    ELSE ValueOr(ApplySort(Ok(corpus), dsl_query), corpus)

\* a call of _query_mock_data: what it returns or raises, and the corpus
\* list it leaves
RunMockQuery(corpus, dsl_query) ==
    [out |-> _query_mock_data(corpus, dsl_query),
     corpus |-> CorpusAfter(corpus, dsl_query)]

-----------------------------------------------------------------------------
(* SIEMConnector: the Backend Query Executor (_query_opensearch, query) *)

\* settings.get_opensearch_index_patterns(): the configured candidate index
\* patterns, most specific first
IndexPatterns == <<"wazuh-alerts-*", "wazuh-*">>

\* settings.get_opensearch_hosts(): the primary host and the backup hosts
Hosts == <<"primary", "backup">>

\* hit_count = total_hits["value"] if isinstance(total_hits, dict) else total_hits
HitCount(total_hits) ==
    IF total_hits.t = "dict" THEN total_hits.d["value"].n ELSE total_hits.n

\* effective_query: a copy of dsl_query that gets track_total_hits = True
\* when the key is absent
EffectiveQuery(dsl_query) ==
    IF "track_total_hits" \in DOMAIN dsl_query THEN dsl_query
    ELSE dsl_query @@ [track_total_hits |-> TRUE]

\* _convert_opensearch_hit_to_log_result (same fields as for a corpus record)
_convert_opensearch_hit_to_log_result(source) ==
    LET rule_info == GetOr(source.d, "rule", PyDict(EmptyDict))
        data_info == GetOr(source.d, "data", PyDict(EmptyDict))
    IN  [timestamp |->
             GetOr(source.d, "timestamp",
                   GetOr(source.d, "@timestamp", PyStrV(<<"N", "/", "A">>))),
         event_id |->
             GetOr(source.d, "_id",
                   GetOr(source.d, "id", PyStrV(<<"e", "v", "t">>))),
         source_ip |->
             GetOr(data_info.d, "srcip", DictGet(data_info, "src_ip")),
         rule_id |-> PyStr(GetOr(rule_info.d, "id", PyStrV(<<>>))),
         rule_description |->
             GetOr(rule_info.d, "description", PyStrV(<<"N", "o">>)),
         severity |-> _map_level_to_severity(GetOr(rule_info.d, "level", PyInt(0)).n),
         raw_data |-> source]

\* source = {**source, "_id": hit["_id"]} when the hit carries an _id
HitSource(hit) ==
    IF "_id" \in DOMAIN hit
    THEN PyDict([k \in DOMAIN hit["_source"].d \cup {"_id"} |->
                    IF k = "_id" THEN hit["_id"] ELSE hit["_source"].d[k]])
    ELSE hit["_source"]

\* a loop that goes on after a pattern with hits: the last pattern that
\* answers gives the response
RECURSIVE SearchEveryPattern(_, _, _, _)
SearchEveryPattern(i, outcomes, effective_query, st) ==
    IF i > Len(IndexPatterns) THEN st
    ELSE SearchEveryPattern(
             i + 1, outcomes, effective_query,
             IF outcomes[i].ok
             THEN [response |-> outcomes[i],
                   indices_searched |-> Append(st.indices_searched, IndexPatterns[i]),
                   searches |-> Append(st.searches,
                                       [index |-> IndexPatterns[i],
                                        body |-> effective_query])]
             ELSE [st EXCEPT !.searches =
                       Append(@, [index |-> IndexPatterns[i],
                                  body |-> effective_query])])

\* The loop over the index patterns (lines 146-175).  outcomes[i] is what
\* es_client.search does for pattern i: a response, or the name of the
\* exception it raises.  The loop state is the last response received, the
\* patterns that answered, and every search issued.
RECURSIVE SearchLoop(_, _, _, _)
SearchLoop(i, outcomes, effective_query, st) ==
    IF i > Len(IndexPatterns) THEN st
    ELSE LET issued == Append(st.searches,
                              [index |-> IndexPatterns[i], body |-> effective_query])
         IN  IF outcomes[i].ok
             THEN LET st2 == [response |-> outcomes[i],
                              indices_searched |->
                                  Append(st.indices_searched, IndexPatterns[i]),
                              searches |-> issued]
                  IN  IF HitCount(outcomes[i].val.total) > 0 THEN st2
                      ELSE SearchLoop(i + 1, outcomes, effective_query, st2)
             ELSE SearchLoop(i + 1, outcomes, effective_query,
                             [st EXCEPT !.searches = issued])

\* the body of the zero-hit sampler search (lines 220-224)
SamplerBody ==
    [size |-> 1,
     sort |-> <<[k |-> "@timestamp", v |-> [order |-> "desc"]]>>,
     query |-> [match_all |-> EmptyDict]]

\* the result built from the last response (lines 182-254): the converted
\* hits and the stats, and the sampler search after a zero-hit answer
BackendAnswer(st, corpus, dsl_query) ==
    [corpus |-> corpus,
     out |->
         Ok([results |->
                 [i \in 1..Len(st.response.val.hits) |->
                     _convert_opensearch_hit_to_log_result(
                         HitSource(st.response.val.hits[i]))],
             stats |->
                 [total_hits |-> HitCount(st.response.val.total),
                  indices_searched |-> st.indices_searched,
                  dsl_query |-> dsl_query]]),
     searches |->
         IF HitCount(st.response.val.total) = 0 /\ IndexPatterns # <<>>
         THEN Append(st.searches,
                     [index |-> IndexPatterns[1], body |-> SamplerBody])
         ELSE st.searches]

\* an executor that also turns to the corpus when the backend answered
\* with no hits
AfterSearchSubstituting(st, corpus, dsl_query) ==
    IF ~st.response.ok \/ st.response.val.hits = <<>>
    THEN RunMockQuery(corpus, dsl_query) @@ [searches |-> st.searches]
    ELSE BackendAnswer(st, corpus, dsl_query)

\* what follows the loop: the corpus when no pattern answered (line 177-180),
\* else the answer of the backend
AfterSearch(st, corpus, dsl_query) ==
    IF ~st.response.ok
    THEN RunMockQuery(corpus, dsl_query) @@ [searches |-> st.searches]
    ELSE BackendAnswer(st, corpus, dsl_query)

\* _query_opensearch: [out |-> the pair (results, stats) or the exception,
\* searches |-> the searches sent to the backend, corpus |-> the corpus
\* list after the call]
_query_opensearch(corpus, dsl_query, outcomes) ==
    AfterSearch(SearchLoop(1, outcomes, EffectiveQuery(dsl_query),
                           [response |-> Raise("none"),
                            indices_searched |-> <<>>,
                            searches |-> <<>>]),
                corpus, dsl_query)

\* SIEMConnector.query: the backend when a client exists, the status is
\* "connected" and mock mode is off; the corpus otherwise
query(conn, corpus, dsl_query, outcomes) ==
    IF conn.es_client /\ conn.connection_status = "connected"
       /\ ~conn.use_mock_data
    THEN _query_opensearch(corpus, dsl_query, outcomes)
    ELSE RunMockQuery(corpus, dsl_query) @@ [searches |-> <<>>]

\* query_siem: the module-level entry point on the global connector
query_siem(conn, corpus, dsl_query, outcomes) ==
    query(conn, corpus, dsl_query, outcomes)

\* One host of the loop of _connect_to_opensearch.  what is "ctor_raises"
\* (OpenSearch(...) raises), "ping_false", "ping_raises", "info_raises"
\* (ping is true, info() raises) or "ok".
ConnectHost(conn, what) ==
    CASE what = "ctor_raises" -> conn
      [] what \in {"ping_false", "ping_raises"} ->
            [conn EXCEPT !.es_client = TRUE]
      [] what \in {"info_raises", "ok"} ->
            [conn EXCEPT !.es_client = TRUE, !.connection_status = "connected"]

\* _connect_to_opensearch: the first host that answers ends the loop; when
\* none does, the connector falls back to mock mode
RECURSIVE ConnectLoop(_, _, _)
ConnectLoop(conn, i, whats) ==
    IF i > Len(Hosts)
    THEN [conn EXCEPT !.use_mock_data = TRUE, !.connection_status = "mock_mode"]
    ELSE IF whats[i] = "ok" THEN ConnectHost(conn, "ok")
    ELSE ConnectLoop(ConnectHost(conn, whats[i]), i + 1, whats)

_connect_to_opensearch(conn, whats) == ConnectLoop(conn, 1, whats)

\* SIEMConnector.__init__
NewConnector(use_mock, whats) ==
    LET conn0 == [use_mock_data |-> use_mock, es_client |-> FALSE,
                  connection_status |-> "disconnected"]
    IN  IF use_mock THEN conn0 ELSE _connect_to_opensearch(conn0, whats)

-----------------------------------------------------------------------------
(* The NL-to-query translator (nlp_brain.py, nlp_service.py) *)

\* r"last\s+(\d+)" matches q at position i, its digits starting at j
LastNAt(q, i, j) ==
    /\ i + 4 <= Len(q)
    /\ SubSeq(q, i, i + 3) = <<"l", "a", "s", "t">>
    /\ q[i + 4] = " "
    /\ j \in (i + 5)..Len(q)
    /\ IsDigitChar(q[j])
    /\ \A k \in (i + 4)..(j - 1) : q[k] = " "

\* re.search(r"last\s+(\d+)", q) finds a match
HasLastN(q) == \E i, j \in 1..Len(q) : LastNAt(q, i, j)

\* the start of the digits of the leftmost match
LastNStart(q) ==
    CHOOSE j \in 1..Len(q) :
        \E i \in 1..Len(q) :
            /\ LastNAt(q, i, j)
            /\ \A i2 \in 1..(i - 1) : \A j2 \in 1..Len(q) : ~LastNAt(q, i2, j2)

\* int(m.group(1)) for that match
RECURSIVE DigitsValue(_, _, _)
DigitsValue(q, j, acc) ==
    IF j <= Len(q) /\ IsDigitChar(q[j])
    THEN DigitsValue(q, j + 1, 10 * acc + DigitVal(q[j]))
    ELSE acc

LastN(q) == DigitsValue(q, LastNStart(q), 0)

TimestampDesc == <<[k |-> "@timestamp", v |-> [order |-> "desc"]]>>

\* dict.setdefault(key, value)
SetDefault(d, key, value) == IF key \in DOMAIN d THEN d ELSE d @@ (key :> value)

\* if "sort" not in dsl or not dsl["sort"]: dsl["sort"] = [@timestamp desc]
SetSort(dsl) ==
    IF "sort" \notin DOMAIN dsl \/ dsl["sort"] = <<>>
    THEN [k \in DOMAIN dsl \cup {"sort"} |->
             IF k = "sort" THEN TimestampDesc ELSE dsl[k]]
    ELSE dsl

\* size from "last N" when the query has no size
SetSizeFromLastN(dsl, q) ==
    IF "size" \notin DOMAIN dsl /\ HasLastN(q)
    THEN dsl @@ [size |-> LastN(q)]
    ELSE dsl

\* _postprocess_dsl: track_total_hits, the default sort, size from "last N"
_postprocess_dsl(dsl, question) ==
    SetSizeFromLastN(SetSort(SetDefault(dsl, "track_total_hits", TRUE)),
                     Lower(question))

\* the must clauses of _fallback_from_question: the failed-login rule when
\* the question speaks of one
FallbackClauses(q) ==
    IF \/ Contains(q, <<"f", "a", "i", "l", "e", "d", " ", "l", "o", "g", "i", "n">>)
       \/ Contains(q, <<"a", "u", "t", "h", "e", "n", "t", "i", "c", "a", "t", "i", "o", "n", " ", "f", "a", "i", "l", "u", "r", "e">>)
    THEN <<[term |-> <<[k |-> <<"rule", ".", "id">>, v |-> PyInt(60122)]>>]>>
    ELSE <<>>

\* the query of the fallback: match_all, or a bool of the must clauses
WithMust(dsl, clauses) ==
    IF clauses # <<>>
    THEN [dsl EXCEPT !["query"] = [bool |-> [must |-> clauses]]]
    ELSE dsl

\* _fallback_from_question, for questions that hold neither a date range
\* nor an IP address (time_filter and ip_term are None)
_fallback_from_question(question) ==
    WithMust(SetSizeFromLastN([track_total_hits |-> TRUE,
                               sort |-> TimestampDesc,
                               query |-> [match_all |-> EmptyDict]],
                              Lower(question)),
             FallbackClauses(Lower(question)))

\* nlp_brain.generate_dsl_query.  llm is what the model call gives: "no_key"
\* (no API key), "raises", "bad_json" (no JSON object in the reply),
\* "not_object" (JSON that is not an object), or "parsed" with the object
gemini_generate_dsl(question, llm) ==
    CASE llm.kind = "no_key" -> EmptyDict
      [] llm.kind = "bad_json" -> EmptyDict
      [] llm.kind = "raises" -> _fallback_from_question(question)
      [] llm.kind = "not_object" -> _postprocess_dsl(EmptyDict, question)
      [] llm.kind = "parsed" -> _postprocess_dsl(llm.dsl, question)

\* security_keywords of create_demo_fallback_query, in dict order
SecurityKeywords ==
    <<[kw |-> <<"f", "a", "i", "l", "e", "d">>,
       clause |-> [term |-> <<[k |-> <<"rule", ".", "description">>,
                               v |-> PyStrV(<<"f", "a", "i", "l", "u", "r", "e">>)]>>]],
      [kw |-> <<"l", "o", "g", "i", "n">>,
       clause |-> [term |-> <<[k |-> <<"rule", ".", "groups">>,
                               v |-> PyStrV(<<"a", "u", "t", "h", "e", "n", "t", "i", "c", "a", "t", "i", "o", "n">>)]>>]],
      [kw |-> <<"a", "t", "t", "a", "c", "k">>,
       clause |-> [range |-> <<[k |-> <<"rule", ".", "level">>,
                                v |-> [gte |-> PyInt(8)]]>>]],
      [kw |-> <<"s", "u", "s", "p", "i", "c", "i", "o", "u", "s">>,
       clause |-> [range |-> <<[k |-> <<"rule", ".", "level">>,
                                v |-> [gte |-> PyInt(6)]]>>]],
      [kw |-> <<"m", "a", "l", "w", "a", "r", "e">>,
       clause |-> [term |-> <<[k |-> <<"rule", ".", "groups">>,
                               v |-> PyStrV(<<"m", "a", "l", "w", "a", "r", "e">>)]>>]],
      [kw |-> <<"c", "r", "i", "t", "i", "c", "a", "l">>,
       clause |-> [range |-> <<[k |-> <<"rule", ".", "level">>,
                                v |-> [gte |-> PyInt(10)]]>>]]>>

RECURSIVE KeywordClauses(_, _)
KeywordClauses(question, i) ==
    IF i > Len(SecurityKeywords) THEN <<>>
    ELSE (IF Contains(Lower(question), Lower(SecurityKeywords[i].kw))
          THEN <<SecurityKeywords[i].clause>> ELSE <<>>)
         \o KeywordClauses(question, i + 1)

DemoSize == 25

\* must_clauses if must_clauses else [{"match_all": {}}]
OrMatchAll(must_clauses) ==
    IF must_clauses = <<>> THEN <<[match_all |-> EmptyDict]>> ELSE must_clauses

\* create_demo_fallback_query: a query guessed from the question's keywords
create_demo_fallback_query(question) ==
    [size |-> DemoSize,
     query |-> [bool |-> [must |-> OrMatchAll(KeywordClauses(question, 1))]],
     sort |-> TimestampDesc]

\* lines 27-41 of nlp_service.generate_dsl_query: size and sort are filled
\* in, or the keyword fallback is used when the translator gave nothing
FilledOrFallback(dsl_query, question) ==
    IF DOMAIN dsl_query # {}
    THEN SetDefault(SetDefault(dsl_query, "size", DemoSize), "sort", TimestampDesc)
    ELSE create_demo_fallback_query(question)

\* nlp_service.generate_dsl_query
generate_dsl_query(question, llm) ==
    FilledOrFallback(gemini_generate_dsl(question, llm), question)

-----------------------------------------------------------------------------
(* ContextManager (context_manager.py) *)

SessionTimeout == 24

\* the sessions dict of a new ContextManager.  A dict is the sequence of its
\* values in insertion order; a ConversationContext carries its session_id.
NoSessions == <<>>

\* session_id in self.sessions
HasSession(ss, session_id) == \E i \in 1..Len(ss) : ss[i].session_id = session_id

\* self.sessions[session_id]
SessionOf(ss, session_id) ==
    ss[CHOOSE i \in 1..Len(ss) : ss[i].session_id = session_id]

\* del self.sessions[session_id]
DelSession(ss, session_id) ==
    SelectSeq(ss, LAMBDA context : context.session_id # session_id)

\* self.sessions[context.session_id] = context: an existing key keeps its
\* place, a new one goes last
PutSession(ss, context) ==
    IF HasSession(ss, context.session_id)
    THEN [i \in 1..Len(ss) |->
              IF ss[i].session_id = context.session_id THEN context ELSE ss[i]]
    ELSE Append(ss, context)

\* a session that expires as soon as it has been idle for the timeout
ExpiredAtTimeout(context, clock) == clock - context.last_updated >= SessionTimeout

\* datetime.now() - context.last_updated > self.session_timeout
Expired(context, clock) == clock - context.last_updated > SessionTimeout

\* a read that refreshes the session it finds
get_context_touching(ss, clock, session_id) ==
    IF ~HasSession(ss, session_id) THEN [context |-> PyNone, sessions |-> ss]
    ELSE IF Expired(SessionOf(ss, session_id), clock)
    THEN [context |-> PyNone, sessions |-> DelSession(ss, session_id)]
    ELSE [context |-> [SessionOf(ss, session_id) EXCEPT !.last_updated = clock],
          sessions |-> PutSession(ss, [SessionOf(ss, session_id)
                                           EXCEPT !.last_updated = clock])]

\* get_context: the context, or None for an unknown session and for an
\* expired one, which the call also deletes
get_context(ss, clock, session_id) ==
    IF ~HasSession(ss, session_id) THEN [context |-> PyNone, sessions |-> ss]
    ELSE IF Expired(SessionOf(ss, session_id), clock)
    THEN [context |-> PyNone, sessions |-> DelSession(ss, session_id)]
    ELSE [context |-> SessionOf(ss, session_id), sessions |-> ss]

\* _cleanup_expired_sessions: every expired session is deleted
_cleanup_expired_sessions(ss, clock) ==
    SelectSeq(ss, LAMBDA context : ~Expired(context, clock))

\* a registry that never evicts
KeepAllSessions(ss) == ss

\* _remove_oldest_session: min() gives the first session, in dict order, of
\* those with the least last_updated
_remove_oldest_session(ss) ==
    IF ss = <<>> THEN ss
    ELSE DelSession(ss,
             ss[CHOOSE i \in 1..Len(ss) :
                    /\ \A j \in 1..Len(ss) :
                           ss[i].last_updated <= ss[j].last_updated
                    /\ \A j \in 1..(i - 1) :
                           ss[j].last_updated # ss[i].last_updated].session_id)

\* the keys of active_filters: a fixed word, or f"filter_{field}"
FilterKey(word) == <<word>>
TermKey(field) == <<"filter_">> \o field

NoFilters == [key \in {} |-> PyNone]

\* an assignment that does not replace the value of a key that is set
KeepFilter(active_filters, key, value) ==
    [k \in DOMAIN active_filters \cup {key} |->
         IF k \in DOMAIN active_filters THEN active_filters[k] ELSE value]

\* active_filters[key] = value
SetFilter(active_filters, key, value) ==
    [k \in DOMAIN active_filters \cup {key} |->
         IF k = key THEN value ELSE active_filters[k]]

\* one pass of the loop body of process_conditions on cond; filters is
\* [active_filters, raised].  next(iter(body.items())) raises StopIteration
\* on an empty body.
ProcessCondition(filters, cond) ==
    IF filters.raised THEN filters
    ELSE IF "range" \in DOMAIN cond
    THEN IF cond["range"] = <<>> THEN [filters EXCEPT !.raised = TRUE]
         ELSE IF cond["range"][1].k \in {<<"@timestamp">>, <<"timestamp">>}
         THEN [filters EXCEPT !.active_filters =
                   SetFilter(@, FilterKey("time_range"), cond["range"][1].v)]
         ELSE IF cond["range"][1].k = <<"rule", ".", "level">>
         THEN [filters EXCEPT !.active_filters =
                   SetFilter(@, FilterKey("severity_filter"), cond["range"][1].v)]
         ELSE filters
    ELSE IF "term" \in DOMAIN cond
    THEN IF cond["term"] = <<>> THEN [filters EXCEPT !.raised = TRUE]
         ELSE [filters EXCEPT !.active_filters =
                   SetFilter(@, TermKey(cond["term"][1].k), cond["term"][1].v)]
    ELSE IF "terms" \in DOMAIN cond
    THEN IF cond["terms"] = <<>> THEN [filters EXCEPT !.raised = TRUE]
         ELSE IF cond["terms"][1].k = <<"rule", ".", "groups">>
         THEN [filters EXCEPT !.active_filters =
                   SetFilter(@, FilterKey("rule_groups"), cond["terms"][1].v)]
         ELSE filters
    ELSE filters

\* process_conditions(conditions)
RECURSIVE process_conditions(_, _)
process_conditions(filters, conditions) ==
    IF conditions = <<>> THEN filters
    ELSE process_conditions(ProcessCondition(filters, Head(conditions)),
                            Tail(conditions))

\* the bool node of the query, {} when there is none
QueryBool(dsl_query) ==
    GetOr(GetOr(dsl_query, "query", EmptyDict), "bool", EmptyDict)

\* _update_active_filters: the filter clauses, then the must clauses
_update_active_filters(active_filters, dsl_query) ==
    process_conditions(
        process_conditions([active_filters |-> active_filters, raised |-> FALSE],
                           GetOr(QueryBool(dsl_query), "filter", <<>>)),
        GetOr(QueryBool(dsl_query), "must", <<>>))

\* the number of entries a session keeps
HistoryLimit == 10

\* a variant that keeps the first entries
KeepFirst(history) ==
    IF Len(history) > HistoryLimit THEN SubSeq(history, 1, HistoryLimit)
    ELSE history

\* if len(context.history) > 10: context.history = context.history[-10:]
Truncate(history) ==
    IF Len(history) > HistoryLimit
    THEN SubSeq(history, Len(history) - HistoryLimit + 1, Len(history))
    ELSE history

\* ContextEntry(timestamp=datetime.now(), ...)
ContextEntry(clock, query_text, dsl_query, result_count, summary) ==
    [timestamp |-> clock, query |-> query_text, dsl_query |-> dsl_query,
     result_count |-> result_count, summary |-> summary]

\* ConversationContext(session_id, history=[], active_filters={}, last_updated=now)
NewContext(session_id, clock) ==
    [session_id |-> session_id, history |-> <<>>,
     active_filters |-> NoFilters, last_updated |-> clock]

\* a registry that makes room on every call, for a known session too
GetOrCreateEvicting(ss, clock, max_sessions, session_id) ==
    [context |-> IF HasSession(ss, session_id) THEN SessionOf(ss, session_id)
                 ELSE NewContext(session_id, clock),
     sessions |-> IF Len(ss) >= max_sessions
                  THEN _remove_oldest_session(ss) ELSE ss,
     existing |-> HasSession(ss, session_id)]

\* the session's context, or a new one; with the registry after the
\* eviction that a new session causes when the registry is full
GetOrCreate(ss, clock, max_sessions, session_id) ==
    IF HasSession(ss, session_id)
    THEN [context |-> SessionOf(ss, session_id), sessions |-> ss, existing |-> TRUE]
    ELSE [context |-> NewContext(session_id, clock),
          sessions |-> IF Len(ss) >= max_sessions
                       THEN _remove_oldest_session(ss) ELSE ss,
          existing |-> FALSE]

\* context.history.append(entry) and the truncation
WithEntry(g, entry) ==
    [g EXCEPT !.context.history = Truncate(Append(@, entry))]

\* the rest of add_to_context, given what _update_active_filters did: when
\* it raised, the changes made to an existing context stay (it is the
\* object in the registry) and a new context is never stored
Finish(g, filters, clock) ==
    IF filters.raised
    THEN [out |-> Raise("StopIteration"),
          sessions |->
              IF g.existing
              THEN PutSession(g.sessions,
                       [g.context EXCEPT !.active_filters = filters.active_filters])
              ELSE g.sessions]
    ELSE [out |-> Ok([g.context EXCEPT !.active_filters = filters.active_filters,
                                       !.last_updated = clock]),
          sessions |->
              PutSession(g.sessions,
                  [g.context EXCEPT !.active_filters = filters.active_filters,
                                    !.last_updated = clock])]

\* the steps of add_to_context after the entry is in the history
UpdateAndStore(g, dsl_query, clock) ==
    Finish(g, _update_active_filters(g.context.active_filters, dsl_query), clock)

\* add_to_context(session_id, query, dsl_query, result_count, summary)
add_to_context(ss, clock, max_sessions, session_id, entry) ==
    UpdateAndStore(
        WithEntry(GetOrCreate(_cleanup_expired_sessions(ss, clock), clock,
                              max_sessions, session_id),
                  entry),
        entry.dsl_query, clock)

\* clear_context(session_id)
clear_context(ss, session_id) ==
    [out |-> HasSession(ss, session_id), sessions |-> DelSession(ss, session_id)]

\* set(query.split()): the words between runs of spaces
RECURSIVE SplitScan(_, _, _, _)
SplitScan(s, i, word, words) ==
    IF i > Len(s) THEN (IF word = <<>> THEN words ELSE words \cup {word})
    ELSE IF s[i] = " "
    THEN SplitScan(s, i + 1, <<>>, IF word = <<>> THEN words ELSE words \cup {word})
    ELSE SplitScan(s, i + 1, Append(word, s[i]), words)

WordSet(s) == SplitScan(s, 1, <<>>, {})

\* len(intersection) / len(union) as a fraction, 0 when a query has no words
Jaccard(words1, words2) ==
    IF words1 = {} \/ words2 = {} THEN [num |-> 0, den |-> 1]
    ELSE [num |-> Cardinality(words1 \cap words2),
          den |-> Cardinality(words1 \cup words2)]

\* _calculate_relevance(query1, query2)
_calculate_relevance(query1, query2) == Jaccard(WordSet(query1), WordSet(query2))

\* score > 0.3.  The quotient of two small integers is the double nearest
\* to the fraction, and 0.3 is the double nearest to 3/10.
AboveThreshold(score) == 10 * score.num > 3 * score.den

\* the number of entries get_relevant_context looks at, and returns
RelevanceWindow == 5
RelevanceTop == 3

\* a window that is the whole history
WholeHistory(history) == history

\* history[-5:]
LastEntries(history) ==
    SubSeq(history, IF Len(history) > RelevanceWindow
                    THEN Len(history) - RelevanceWindow + 1 ELSE 1,
           Len(history))

\* the key (timestamp, relevance) of an entry
RelevanceKey(entry, current_query_lower) ==
    [timestamp |-> entry.timestamp,
     score |-> _calculate_relevance(current_query_lower, Lower(entry.query))]

\* a >= b for two keys, compared as tuples
KeyAtLeast(a, b) ==
    \/ a.timestamp > b.timestamp
    \/ /\ a.timestamp = b.timestamp
       /\ a.score.num * b.score.den >= b.score.num * a.score.den

\* list.sort(key=..., reverse=True) by insertion: an entry goes behind every
\* entry whose key is not smaller than its own, so equal keys keep their order
RECURSIVE InsertEntry(_, _, _)
InsertEntry(sorted, entry, current_query_lower) ==
    IF sorted = <<>> THEN <<entry>>
    ELSE IF KeyAtLeast(RelevanceKey(Head(sorted), current_query_lower),
                       RelevanceKey(entry, current_query_lower))
    THEN <<Head(sorted)>> \o InsertEntry(Tail(sorted), entry, current_query_lower)
    ELSE <<entry>> \o sorted

RECURSIVE SortRelevant(_, _)
SortRelevant(entries, current_query_lower) ==
    IF entries = <<>> THEN <<>>
    ELSE InsertEntry(SortRelevant(SubSeq(entries, 1, Len(entries) - 1),
                                  current_query_lower),
                     entries[Len(entries)], current_query_lower)

\* the entries of the window whose score is above the threshold
RelevantEntries(entries, current_query_lower) ==
    SelectSeq(entries,
              LAMBDA entry :
                  AboveThreshold(_calculate_relevance(current_query_lower,
                                                      Lower(entry.query))))

\* get_relevant_context after get_context returned context
RelevantOf(context, current_query_lower) ==
    IF context = PyNone \/ context.history = <<>> THEN <<>>
    ELSE Take(SortRelevant(RelevantEntries(LastEntries(context.history),
                                           current_query_lower),
                           current_query_lower),
              RelevanceTop)

\* get_relevant_context(session_id, current_query)
get_relevant_context(ss, clock, session_id, current_query) ==
    [out |-> RelevantOf(get_context(ss, clock, session_id).context,
                        Lower(current_query)),
     sessions |-> get_context(ss, clock, session_id).sessions]

\* sum(entry.result_count for entry in history)
RECURSIVE SumResults(_)
SumResults(history) ==
    IF history = <<>> THEN 0
    ELSE Head(history).result_count + SumResults(Tail(history))

\* the part of the summary that get_session_summary computes from context
SummaryOf(context, session_id) ==
    IF context = PyNone THEN [error |-> "Session not found"]
    ELSE [session_id |-> session_id,
          total_queries |-> Len(context.history),
          total_results_found |-> SumResults(context.history),
          active_filters |-> context.active_filters,
          last_activity |-> context.last_updated]

\* get_session_summary(session_id)
get_session_summary(ss, clock, session_id) ==
    [out |-> SummaryOf(get_context(ss, clock, session_id).context, session_id),
     sessions |-> get_context(ss, clock, session_id).sessions]

\* the export that export_session_data builds from context
ExportOf(context, clock, session_id) ==
    IF context = PyNone THEN PyNone
    ELSE [session_id |-> session_id,
          export_timestamp |-> clock,
          session_data |-> [history |-> context.history,
                            active_filters |-> context.active_filters,
                            last_updated |-> context.last_updated]]

\* export_session_data(session_id)
export_session_data(ss, clock, session_id) ==
    [out |-> ExportOf(get_context(ss, clock, session_id).context, clock,
                      session_id),
     sessions |-> get_context(ss, clock, session_id).sessions]

\* HTTPException(status_code, detail), an Exception
HTTPException(status_code, detail) ==
    [ok |-> FALSE, exc |-> "HTTPException", status_code |-> status_code,
     detail |-> detail]

\* the body of the try block of get_conversation_context
ContextBody(context, session_id) ==
    IF context = PyNone THEN HTTPException(404, "Session not found")
    ELSE [ok |-> TRUE,
          val |-> [session_id |-> session_id,
                   query_count |-> Len(context.history),
                   last_updated |-> context.last_updated,
                   active_filters |-> context.active_filters,
                   recent_queries |-> [i \in 1..Len(LastEntries(context.history)) |->
                                           LastEntries(context.history)[i].query]]]

\* except Exception as e: raise HTTPException(status_code=500, ...), which
\* catches every exception the try block raised
ExceptException(r) ==
    IF r.ok THEN [status |-> 200, body |-> r.val]
    ELSE [status |-> 500, detail |-> "Failed to retrieve context"]

\* GET /context/{session_id}
get_conversation_context(ss, clock, session_id) ==
    [response |-> ExceptException(
                      ContextBody(get_context(ss, clock, session_id).context,
                                  session_id)),
     sessions |-> get_context(ss, clock, session_id).sessions]

-----------------------------------------------------------------------------
(* The inputs of the model *)

MaxCorpus == 3      \* records in a corpus drawn from RecordPool
MaxClauses == 2     \* clauses in a bool query, over its four lists
MaxSize == 2        \* the largest explicit "size"

Path(a, b) == <<a, ".", b>>

\* a failed login with every canonical field
RecLogin ==
    PyDict([event_id |-> PyStrV(<<"e", "1">>),
            timestamp |-> PyStrV(<<"2", "Z">>),
            rule |-> PyDict([id |-> PyStrV(<<"6", "0", "1", "2", "2">>),
                             level |-> PyInt(8),
                             description |-> PyStrV(<<"F", "a", "i", "l", "e", "d", " ", "l", "o", "g", "i", "n">>),
                             groups |-> PyList(<<PyStrV(<<"a", "u", "t", "h">>)>>)]),
            data |-> PyDict([srcip |-> PyStrV(<<"1", "0">>)])])

\* later on the wall clock string, earlier as an instant; no data
RecSudo ==
    PyDict([event_id |-> PyStrV(<<"e", "2">>),
            timestamp |-> PyStrV(<<"3", "+", "2">>),
            rule |-> PyDict([id |-> PyStrV(<<"5", "7">>),
                             level |-> PyInt(3),
                             description |-> PyStrV(<<"s", "u", "d", "o">>)])])

\* another record under the event_id of RecLogin
RecDup ==
    PyDict([event_id |-> PyStrV(<<"e", "1">>),
            timestamp |-> PyStrV(<<"4", "Z">>),
            rule |-> PyDict([id |-> PyStrV(<<"5", "7">>),
                             level |-> PyInt(10),
                             description |-> PyStrV(<<"L", "o", "g", "i", "n", " ", "o", "k">>)]),
            data |-> PyDict([srcip |-> PyStrV(<<"1", "0">>)])])

\* no event_id, no rule.id, no rule.description
RecNoId ==
    PyDict([timestamp |-> PyStrV(<<"3", "Z">>),
            rule |-> PyDict([level |-> PyInt(5)])])

\* no timestamp
RecNoTime ==
    PyDict([event_id |-> PyStrV(<<"e", "5">>),
            rule |-> PyDict([id |-> PyStrV(<<"6", "0", "1", "2", "2">>),
                             level |-> PyInt(8),
                             description |-> PyStrV(<<"s", "u", "d", "o">>)])])

\* a timestamp that is no ISO-8601 string
RecBadTime ==
    PyDict([event_id |-> PyStrV(<<"e", "6">>),
            timestamp |-> PyStrV(<<"x">>),
            rule |-> PyDict([id |-> PyStrV(<<"5", "7">>),
                             level |-> PyInt(3),
                             description |-> PyStrV(<<"s", "u", "d", "o">>)])])

RecordPool == {RecLogin, RecSudo, RecDup, RecNoId, RecNoTime}

SeqUpTo(S, n) == UNION {[1..k -> S] : k \in 0..n}

\* a corpus longer than the default size: the three records that sort and
\* carry an event_id, repeated
LongCorpus ==
    [i \in 1..(DefaultSize + MaxCorpus) |->
        CASE i % 3 = 0 -> RecLogin [] i % 3 = 1 -> RecSudo [] OTHER -> RecDup]

Corpora ==
    SeqUpTo(RecordPool, MaxCorpus)
    \cup {LongCorpus, <<RecBadTime>>, <<RecLogin, RecBadTime>>}

CAll == [match_all |-> EmptyDict]
CTermId == [term |-> <<[k |-> Path("rule", "id"), v |-> PyStrV(<<"6", "0", "1", "2", "2">>)]>>]
CTerms == [terms |-> <<[k |-> Path("rule", "level"),
                        v |-> PyList(<<PyInt(3), PyInt(10)>>)]>>]
CMatchLogin == [match |-> <<[k |-> Path("rule", "description"),
                             v |-> PyStrV(<<"L", "O", "G", "I", "N">>)]>>]
CMatchNon == [match |-> <<[k |-> Path("data", "srcip"), v |-> PyStrV(<<"n", "o", "n">>)]>>]
CMatchInt == [match |-> <<[k |-> Path("rule", "level"), v |-> PyInt(8)]>>]
CRange == [range |-> <<[k |-> Path("rule", "level"),
                        v |-> [gte |-> PyInt(5), lt |-> PyInt(10)]]>>]
CExists == [exists |-> [field |-> Path("data", "srcip")]]

\* the conditions that bool queries of several clauses are built from
BoolConds == {CAll, CTermId, CRange}

CTermEmpty == [term |-> <<>>]
CTermGroup == [term |-> <<[k |-> <<"rule", ".", "groups", ".", "0">>,
                           v |-> PyStrV(<<"a", "u", "t", "h">>)]>>]
CTermDeep == [term |-> <<[k |-> <<"rule", ".", "id", ".", "x">>, v |-> PyNone]>>]
CTermsInt == [terms |-> <<[k |-> Path("rule", "level"), v |-> PyInt(8)]>>]
CMatchGroups == [match |-> <<[k |-> Path("rule", "groups"), v |-> PyStrV(<<"a", "u", "t", "h">>)]>>]
CRangeStr == [range |-> <<[k |-> <<"timestamp">>,
                           v |-> [gt |-> PyStrV(<<"2", "Z">>),
                                  lte |-> PyStrV(<<"4", "Z">>)]]>>]
CRangeMixed == [range |-> <<[k |-> Path("rule", "id"), v |-> [lte |-> PyInt(9)]]>>]

\* every single condition of the model
AllConds ==
    BoolConds \cup {CTerms, CMatchLogin, CMatchNon, CMatchInt, CExists,
                    CTermEmpty, CTermGroup, CTermDeep, CTermsInt,
                    CMatchGroups, CRangeStr, CRangeMixed}

BoolKeys == {"must", "should", "filter", "must_not"}

\* the bool dict that holds the clauses of pairs, each under its key, in order
BoolOf(pairs) ==
    [g \in {pairs[i][1] : i \in 1..Len(pairs)} |->
        LET mine == SelectSeq(pairs, LAMBDA pr : pr[1] = g)
        IN  [i \in 1..Len(mine) |-> mine[i][2]]]

BoolNodes ==
    {[bool |-> BoolOf(pairs)] : pairs \in SeqUpTo(BoolKeys \X BoolConds, MaxClauses)}
    \cup {[bool |-> BoolOf(<<<<g, c>>>>)] : g \in BoolKeys, c \in AllConds}

QueryNodes == BoolNodes \cup AllConds

SortOpts ==
    {<<>>,
     <<[k |-> "timestamp", v |-> [order |-> "desc"]]>>,
     <<[k |-> "timestamp", v |-> [order |-> "asc"]]>>,
     <<[k |-> "timestamp", v |-> EmptyDict]>>,
     TimestampDesc}

\* nodes that are combined with every sort and size
ShapedNodes ==
    {CAll, CRange, [bool |-> [should |-> <<CMatchLogin, CRange>>]],
     [bool |-> [must |-> <<CTerms>>]]}

\* the structured queries handed to the executor
Queries ==
    {[query |-> n] : n \in QueryNodes}
    \cup {[query |-> n, sort |-> so] : n \in ShapedNodes, so \in SortOpts}
    \cup {[query |-> n, size |-> sz] : n \in ShapedNodes, sz \in 0..MaxSize}
    \cup {[query |-> n, sort |-> so, size |-> sz] :
             n \in ShapedNodes, so \in SortOpts, sz \in 0..MaxSize}
    \cup {EmptyDict}

-----------------------------------------------------------------------------
(* The /query handlers (main.py, main_hackathon.py) *)

\* the parameters of nlp_service.generate_dsl_query, and the keyword
\* arguments main.handle_query calls it with; a keyword that is no parameter
\* makes the call raise TypeError
TranslatorParameters == {"question", "context", "query_type"}
MainCallKeywords == {"question", "context", "max_results"}

RequestMaxResults == 20

\* has_more_results as each handler computes it
HasMoreResults(app, n, total) ==
    IF app = "main_hackathon" THEN n >= 20
    ELSE n = RequestMaxResults /\ total > n

\* the ApiResponse built from what query_siem gave (summary and suggestions
\* are display text and left out), or the 500 of the except clause
Respond(r, dsl_query, app) ==
    [dsl_query |-> dsl_query,
     executed |-> <<dsl_query>>,
     searches |-> r.searches,
     corpus |-> r.corpus,
     response |->
         IF r.out.ok
         THEN [status |-> 200,
               results |-> r.out.val.results,
               query_stats |-> r.out.val.stats,
               has_more_results |->
                   HasMoreResults(app, Len(r.out.val.results),
                                  r.out.val.stats.total_hits)]
         ELSE [status |-> 500, detail |-> r.out.exc]]

\* what the handler does once it has a structured query: run it and respond
RunAndRespond(conn, corpus, dsl_query, outcomes, app) ==
    Respond(query_siem(conn, corpus, dsl_query, outcomes), dsl_query, app)

\* main_hackathon.handle_query
HackathonHandleQuery(conn, corpus, question, llm, outcomes) ==
    RunAndRespond(conn, corpus, generate_dsl_query(question, llm), outcomes,
                  "main_hackathon")

\* main.handle_query: reads the session's context, then calls the translator
MainHandleQuery(conn, corpus, question, llm, outcomes) ==
    IF ~(MainCallKeywords \subseteq TranslatorParameters)
    THEN [dsl_query |-> EmptyDict,
          executed |-> <<>>,
          searches |-> <<>>,
          corpus |-> corpus,
          response |-> [status |-> 500, detail |-> "TypeError"]]
    ELSE RunAndRespond(conn, corpus, generate_dsl_query(question, llm), outcomes,
                       "main")

-----------------------------------------------------------------------------
(* The state machines *)

Conn == [use_mock_data |-> use_mock_data, es_client |-> es_client,
         connection_status |-> connection_status]

Connected == es_client /\ connection_status = "connected" /\ ~use_mock_data

HostOutcomes == {"ctor_raises", "ping_false", "ping_raises", "info_raises", "ok"}

\* a hit of the backend and the responses a search gives
BackendHit ==
    ("_id" :> PyStrV(<<"h", "1">>))
    @@ ("_source" :>
           PyDict(("@timestamp" :> PyStrV(<<"5", "Z">>))
                  @@ [rule |-> PyDict([id |-> PyInt(60122), level |-> PyInt(10)]),
                      data |-> PyDict([src_ip |-> PyStrV(<<"1", "0">>)])]))

SearchOutcomes ==
    {Raise("NotFoundError"), Raise("ConnectionError"),
     Ok([total |-> PyInt(0), hits |-> <<>>]),
     Ok([total |-> PyDict([value |-> PyInt(3)]), hits |-> <<BackendHit>>])}

\* one outcome per index pattern when the query goes to the backend; the
\* dataset executor issues no search
OutcomeChoices ==
    IF Connected THEN [1..Len(IndexPatterns) -> SearchOutcomes]
    ELSE {[i \in 1..Len(IndexPatterns) |-> Raise("NotFoundError")]}

\* The global connector is built with use_mock_data = False; conn0 is what
\* the constructor leaves when the hosts behave as whats says.  requests is
\* the set of requests one of which is in flight.
InitWith(corpora, whatsSet, requests) ==
    /\ mock_data \in corpora
    /\ \E conn0 \in {NewConnector(FALSE, whats) : whats \in whatsSet} :
           /\ use_mock_data = conn0.use_mock_data
           /\ es_client = conn0.es_client
           /\ connection_status = conn0.connection_status
    /\ sessions = NoSessions
    /\ now = 0
    /\ request \in requests
    /\ last = [op |-> "init"]

NoRequest == [op |-> "none"]

\* query_siem(dsl_query) for the request in flight; before is the corpus
\* the call found
Query(outcomes) ==
    /\ request.op = "query"
    /\ \E r \in {query_siem(Conn, mock_data, request.dsl_query, outcomes)} :
           /\ last' = request @@ r @@ [before |-> mock_data]
           /\ mock_data' = r.corpus
    /\ request' = [request EXCEPT !.op = "repeat"]
    /\ UNCHANGED <<use_mock_data, connection_status, es_client, sessions, now>>

\* the same query_siem(dsl_query) once more; first is what the first call
\* returned and the corpus it left
Repeat(outcomes) ==
    /\ request.op = "repeat"
    /\ \E r \in {query_siem(Conn, mock_data, request.dsl_query, outcomes)} :
           /\ last' = request @@ r
                      @@ [before |-> last.before,
                          first |-> [out |-> last.out, corpus |-> last.corpus]]
           /\ mock_data' = r.corpus
    /\ request' = NoRequest
    /\ UNCHANGED <<use_mock_data, connection_status, es_client, sessions, now>>

QueryRequests == {[op |-> "query", dsl_query |-> q] : q \in Queries}

\* The dataset executor: no host answered at start-up, so every query is
\* answered from the corpus.
Init == InitWith(Corpora, {[i \in 1..Len(Hosts) |-> "ping_raises"]}, QueryRequests)

Next ==
    \E outcomes \in OutcomeChoices :
        \/ Query(outcomes)
        \/ Repeat(outcomes)

Spec == Init /\ [][Next]_vars

Questions == {<<"F", "a", "i", "l", "e", "d", " ", "l", "o", "g", "i", "n">>,
              <<"l", "a", "s", "t", " ", "2", " ", "c", "r", "i", "t", "i", "c", "a", "l">>,
              <<"s", "u", "d", "o">>}

SessionIds == {"s1", "s2"}

\* what the model call of the translator gives
LlmOutcomes ==
    {[kind |-> k] : k \in {"no_key", "raises", "bad_json", "not_object"}}
    \cup {[kind |-> "parsed", dsl |-> d] :
            d \in {[query |-> [bool |-> [must |-> <<CMatchLogin>>]]],
                   [query |-> [bool |-> [must |-> <<CMatchInt>>]]],
                   [query |-> [bool |-> [should |-> <<CRange>>]],
                    size |-> 1, track_total_hits |-> FALSE]}}

\* POST /query of main.py
HandleQueryMain(llm, outcomes) ==
    /\ request.op = "handle_query"
    /\ request.app = "main"
    /\ sessions' = get_context(sessions, now, request.session_id).sessions
    /\ \E h \in {MainHandleQuery(Conn, mock_data, request.question, llm, outcomes)} :
           /\ last' = request @@ [llm |-> llm] @@ h
           /\ mock_data' = h.corpus
    /\ request' = NoRequest
    /\ UNCHANGED <<use_mock_data, connection_status, es_client, now>>

\* POST /query of main_hackathon.py
HandleQueryHackathon(llm, outcomes) ==
    /\ request.op = "handle_query"
    /\ request.app = "main_hackathon"
    /\ \E h \in {HackathonHandleQuery(Conn, mock_data, request.question, llm, outcomes)} :
           /\ last' = request @@ [llm |-> llm] @@ h
           /\ mock_data' = h.corpus
    /\ request' = NoRequest
    /\ UNCHANGED <<use_mock_data, connection_status, es_client, sessions, now>>

PipelineCorpora == {<<>>, <<RecLogin, RecSudo>>, <<RecNoId, RecDup>>}

HandleQueryRequests ==
    {[op |-> "handle_query", app |-> app, question |-> question,
      session_id |-> session_id] :
        app \in {"main", "main_hackathon"}, question \in Questions,
        session_id \in SessionIds}

InitPipeline ==
    InitWith(PipelineCorpora, [1..Len(Hosts) -> HostOutcomes], HandleQueryRequests)

NextPipeline ==
    \E llm \in LlmOutcomes : \E outcomes \in OutcomeChoices :
        \/ HandleQueryMain(llm, outcomes)
        \/ HandleQueryHackathon(llm, outcomes)

SpecPipeline == InitPipeline /\ [][NextPipeline]_vars

-----------------------------------------------------------------------------
(* The context store driven through its public operations *)

MaxAdds == 3        \* add_to_context calls in the registry and filter scenarios
MaxTicks == 2       \* clock advances in the registry scenarios
HistoryCalls == 15  \* add_to_context calls in the history scenario
RelevanceCalls == 6 \* add_to_context calls in the relevance scenario

\* clauses that _update_active_filters reads
RangeOn(field, bound) == [range |-> <<[k |-> field, v |-> [gte |-> PyInt(bound)]]>>]
TermOn(field, value) == [term |-> <<[k |-> field, v |-> PyStrV(value)]>>]
TermsOn(field, value) == [terms |-> <<[k |-> field, v |-> PyList(<<PyStrV(value)>>)]>>]

DAll == [query |-> [bool |-> [must |-> <<CAll>>]]]

DFirst ==
    [query |-> [bool |-> [filter |-> <<RangeOn(<<"@timestamp">>, 1),
                                       TermOn(Path("rule", "id"), <<"5", "7">>)>>,
                          must |-> <<RangeOn(Path("rule", "level"), 5),
                                     TermsOn(Path("rule", "groups"), <<"a">>)>>]]]

DSecond ==
    [query |-> [bool |-> [filter |-> <<RangeOn(Path("rule", "level"), 8),
                                       TermsOn(Path("rule", "groups"), <<"b">>)>>,
                          must |-> <<TermOn(Path("rule", "id"), <<"6">>),
                                     RangeOn(<<"timestamp">>, 2)>>]]]

DTimeOnly == [query |-> [bool |-> [must |-> <<RangeOn(<<"timestamp">>, 3)>>]]]

DOther ==
    [query |-> [bool |-> [must |-> <<RangeOn(Path("rule", "id"), 4),
                                     TermsOn(Path("rule", "level"), <<"c">>),
                                     CExists>>]]]

DEmptyTerm == [query |-> [bool |-> [must |-> <<RangeOn(<<"timestamp">>, 4), CTermEmpty>>]]]
DEmptyRange == [query |-> [bool |-> [filter |-> <<[range |-> <<>>]>>]]]
DEmptyTerms == [query |-> [bool |-> [must |-> <<[terms |-> <<>>]>>]]]

FilterDsls == {DFirst, DSecond, DTimeOnly, DOther, DEmptyTerm, DEmptyRange, DEmptyTerms}

QFailedLogin == <<"F", "a", "i", "l", "e", "d", " ", "l", "o", "g", "i", "n">>
QSudo == <<"s", "u", "d", "o">>
QLoginSudo == <<"l", "o", "g", "i", "n", " ", " ", "S", "U", "D", "O">>
QLoginSudoNow ==
    <<" ", "l", "o", "g", "i", "n", " ", "s", "u", "d", "o", " ", "n", "o", "w", " ", "x">>
QCurrent == <<"f", "a", "i", "l", "e", "d", " ", "L", "O", "G", "I", "N">>

Summary == <<"o", "k">>

\* what a run of the store may do: the ids and the queries it records, the
\* capacity of the registry, how many calls it makes, how the clock moves,
\* which operations besides add_to_context it calls
ReadOps == {"get_context", "get_relevant_context", "get_session_summary",
            "export_session_data"}

Scenarios ==
    {[name |-> "history", ids |-> {"s1"}, probes |-> {"s1"}, questions |-> {QSudo},
      dsls |-> {DAll}, currents |-> {QSudo}, max_sessions |-> 2,
      adds_left |-> HistoryCalls, ticks |-> {12}, ticks_left |-> 1,
      ops |-> ReadOps],
     [name |-> "relevance", ids |-> {"s1"}, probes |-> {"s1"},
      questions |-> {QFailedLogin, QLoginSudo, QLoginSudoNow}, dsls |-> {DAll},
      currents |-> {QCurrent}, max_sessions |-> 2, adds_left |-> RelevanceCalls,
      ticks |-> {1, 25}, ticks_left |-> 1, ops |-> {"get_relevant_context"}],
     [name |-> "filters", ids |-> {"s1"}, probes |-> {"s1", "s0"},
      questions |-> {QSudo}, dsls |-> FilterDsls, currents |-> {QSudo},
      max_sessions |-> 2, adds_left |-> MaxAdds, ticks |-> {25},
      ticks_left |-> 1,
      ops |-> ReadOps \cup {"clear_context", "get_conversation_context"}]}
    \cup {[name |-> "registry", ids |-> {"s1", "s2", "s3"},
           probes |-> {"s1", "s2", "s3"}, questions |-> {QSudo},
           dsls |-> {DAll}, currents |-> {QSudo},
           max_sessions |-> max_sessions, adds_left |-> MaxAdds + 1,
           ticks |-> {12, 13}, ticks_left |-> MaxTicks,
           ops |-> {"get_context", "clear_context"}] :
              max_sessions \in {1, 2}}

StoreRequests == {[op |-> "store", calls |-> 0] @@ scenario : scenario \in Scenarios}

\* the ids a caller may ask for
ProbeIds == request.probes

\* add_to_context(session_id, query, dsl_query, result_count, summary); the
\* result_count is the number of the call
AddToContext ==
    /\ request.op = "store"
    /\ request.adds_left > 0
    /\ \E session_id \in request.ids, query_text \in request.questions,
          dsl_query \in request.dsls :
           \E entry \in {ContextEntry(now, query_text, dsl_query,
                                      request.calls + 1, Summary)} :
               \E r \in {add_to_context(sessions, now, request.max_sessions,
                                        session_id, entry)} :
                   /\ sessions' = r.sessions
                   /\ last' = [op |-> "add_to_context", session_id |-> session_id,
                               entry |-> entry, out |-> r.out, before |-> sessions]
    /\ request' = [request EXCEPT !.adds_left = @ - 1, !.calls = @ + 1]
    /\ UNCHANGED <<mock_data, use_mock_data, connection_status, es_client, now>>

\* get_context(session_id)
GetContext ==
    /\ request.op = "store"
    /\ "get_context" \in request.ops
    /\ \E session_id \in ProbeIds :
           \E r \in {get_context(sessions, now, session_id)} :
               /\ sessions' = r.sessions
               /\ last' = [op |-> "get_context", session_id |-> session_id,
                           out |-> r.context, before |-> sessions]
    /\ UNCHANGED <<mock_data, use_mock_data, connection_status, es_client, now,
                   request>>

\* clear_context(session_id)
ClearContext ==
    /\ request.op = "store"
    /\ "clear_context" \in request.ops
    /\ \E session_id \in ProbeIds :
           \E r \in {clear_context(sessions, session_id)} :
               /\ sessions' = r.sessions
               /\ last' = [op |-> "clear_context", session_id |-> session_id,
                           out |-> r.out, before |-> sessions]
    /\ UNCHANGED <<mock_data, use_mock_data, connection_status, es_client, now,
                   request>>

\* get_relevant_context(session_id, current_query)
GetRelevantContext ==
    /\ request.op = "store"
    /\ "get_relevant_context" \in request.ops
    /\ \E session_id \in ProbeIds, current_query \in request.currents :
           \E r \in {get_relevant_context(sessions, now, session_id, current_query)} :
               /\ sessions' = r.sessions
               /\ last' = [op |-> "get_relevant_context", session_id |-> session_id,
                           current_query |-> current_query, out |-> r.out,
                           before |-> sessions]
    /\ UNCHANGED <<mock_data, use_mock_data, connection_status, es_client, now,
                   request>>

\* get_session_summary(session_id)
GetSessionSummary ==
    /\ request.op = "store"
    /\ "get_session_summary" \in request.ops
    /\ \E session_id \in ProbeIds :
           \E r \in {get_session_summary(sessions, now, session_id)} :
               /\ sessions' = r.sessions
               /\ last' = [op |-> "get_session_summary", session_id |-> session_id,
                           out |-> r.out, before |-> sessions]
    /\ UNCHANGED <<mock_data, use_mock_data, connection_status, es_client, now,
                   request>>

\* export_session_data(session_id)
ExportSessionData ==
    /\ request.op = "store"
    /\ "export_session_data" \in request.ops
    /\ \E session_id \in ProbeIds :
           \E r \in {export_session_data(sessions, now, session_id)} :
               /\ sessions' = r.sessions
               /\ last' = [op |-> "export_session_data", session_id |-> session_id,
                           out |-> r.out, before |-> sessions]
    /\ UNCHANGED <<mock_data, use_mock_data, connection_status, es_client, now,
                   request>>

\* GET /context/{session_id}
GetConversationContext ==
    /\ request.op = "store"
    /\ "get_conversation_context" \in request.ops
    /\ \E session_id \in ProbeIds :
           \E r \in {get_conversation_context(sessions, now, session_id)} :
               /\ sessions' = r.sessions
               /\ last' = [op |-> "get_conversation_context",
                           session_id |-> session_id, response |-> r.response,
                           before |-> sessions]
    /\ UNCHANGED <<mock_data, use_mock_data, connection_status, es_client, now,
                   request>>

\* time passes between two calls
Tick ==
    /\ request.op = "store"
    /\ request.ticks_left > 0
    /\ \E hours \in request.ticks : now' = now + hours
    /\ request' = [request EXCEPT !.ticks_left = @ - 1]
    /\ last' = [op |-> "tick"]
    /\ UNCHANGED <<mock_data, use_mock_data, connection_status, es_client, sessions>>

InitStore ==
    InitWith({<<>>}, {[i \in 1..Len(Hosts) |-> "ping_raises"]}, StoreRequests)

NextStore ==
    \/ AddToContext
    \/ GetContext
    \/ ClearContext
    \/ GetRelevantContext
    \/ GetSessionSummary
    \/ ExportSessionData
    \/ GetConversationContext
    \/ Tick

SpecStore == InitStore /\ [][NextStore]_vars

-----------------------------------------------------------------------------
(* The context store called from several threads.  add_to_context runs    *)
(* under the lock, one statement at a time; a reader takes the lock only  *)
(* inside get_context and reads the context it got after releasing it.    *)

MaxThreadCalls == 12    \* add_to_context calls made by the writer threads

Writers == {"w1", "w2"}

ThreadRequests ==
    {[op |-> "threads", max_sessions |-> 2, lock |-> "free", calls |-> 0,
      adds_left |-> MaxThreadCalls,
      writer |-> [w \in Writers |-> [pc |-> "idle"]],
      reader |-> [pc |-> "idle", kind |-> kind, session_id |-> "s1",
                  current_query |-> QSudo]] :
        kind \in {"get_session_summary", "get_relevant_context"}}

\* the context a writer works on: the object in the registry for a session
\* that was there, its own new object otherwise
ContextOf(w) ==
    IF request.writer[w].existing
    THEN SessionOf(sessions, request.writer[w].session_id)
    ELSE request.writer[w].context

\* the registry after a writer changed its context to context
Written(w, context) ==
    IF request.writer[w].existing THEN PutSession(sessions, context) ELSE sessions

\* with self._lock, _cleanup_expired_sessions, and the get-or-create block
WriterBegin(w) ==
    /\ request.op = "threads"
    /\ request.lock = "free"
    /\ request.writer[w].pc \in {"idle", "done"}
    /\ request.adds_left > 0
    /\ \E g \in {GetOrCreate(_cleanup_expired_sessions(sessions, now), now,
                             request.max_sessions, "s1")} :
           /\ sessions' = g.sessions
           /\ request' = [request EXCEPT
                  !.lock = w,
                  !.calls = @ + 1,
                  !.adds_left = @ - 1,
                  !.writer[w] = [pc |-> "append", session_id |-> "s1",
                                 existing |-> g.existing, context |-> g.context,
                                 entry |-> ContextEntry(now, QSudo, DAll,
                                                        request.calls + 1, Summary)]]
    /\ UNCHANGED <<mock_data, use_mock_data, connection_status, es_client, now, last>>

\* context.history.append(entry)
WriterAppend(w) ==
    /\ request.op = "threads"
    /\ request.writer[w].pc = "append"
    /\ \E context \in {[ContextOf(w) EXCEPT
                            !.history = Append(@, request.writer[w].entry)]} :
           /\ sessions' = Written(w, context)
           /\ request' = [request EXCEPT !.writer[w].pc = "truncate",
                                         !.writer[w].context = context]
    /\ UNCHANGED <<mock_data, use_mock_data, connection_status, es_client, now, last>>

\* if len(context.history) > 10: context.history = context.history[-10:]
WriterTruncate(w) ==
    /\ request.op = "threads"
    /\ request.writer[w].pc = "truncate"
    /\ \E context \in {[ContextOf(w) EXCEPT !.history = Truncate(@)]} :
           /\ sessions' = Written(w, context)
           /\ request' = [request EXCEPT !.writer[w].pc = "store",
                                         !.writer[w].context = context]
    /\ UNCHANGED <<mock_data, use_mock_data, connection_status, es_client, now, last>>

\* _update_active_filters, last_updated, the store, and the end of the
\* with block
WriterFinish(w) ==
    /\ request.op = "threads"
    /\ request.writer[w].pc = "store"
    /\ \E r \in {UpdateAndStore([context |-> ContextOf(w), sessions |-> sessions,
                                 existing |-> request.writer[w].existing],
                                request.writer[w].entry.dsl_query, now)} :
           /\ sessions' = r.sessions
           /\ last' = [op |-> "add_to_context", session_id |-> "s1",
                       entry |-> request.writer[w].entry, out |-> r.out]
    /\ request' = [request EXCEPT !.lock = "free", !.writer[w] = [pc |-> "done"]]
    /\ UNCHANGED <<mock_data, use_mock_data, connection_status, es_client, now>>

\* context = self.get_context(session_id), and the return for None
ReaderGetContext ==
    /\ request.op = "threads"
    /\ request.lock = "free"
    /\ request.reader.pc \in {"idle", "done"}
    /\ \E r \in {get_context(sessions, now, request.reader.session_id)} :
           /\ sessions' = r.sessions
           /\ IF r.context = PyNone
              THEN /\ request' = [request EXCEPT !.reader.pc = "done"]
                   /\ last' = [op |-> request.reader.kind,
                               session_id |-> request.reader.session_id,
                               out |-> IF request.reader.kind = "get_session_summary"
                                       THEN SummaryOf(PyNone, request.reader.session_id)
                                       ELSE RelevantOf(PyNone, <<>>)]
              ELSE /\ request' = [request EXCEPT !.reader.pc = "read"]
                   /\ last' = last
    /\ UNCHANGED <<mock_data, use_mock_data, connection_status, es_client, now>>

\* the rest of the reader, on the context object it holds: no session is
\* deleted in these runs, so that object is the one in the registry
ReaderRead ==
    /\ request.op = "threads"
    /\ request.reader.pc = "read"
    /\ \E context \in {SessionOf(sessions, request.reader.session_id)} :
           last' = [op |-> request.reader.kind,
                    session_id |-> request.reader.session_id,
                    out |-> IF request.reader.kind = "get_session_summary"
                            THEN SummaryOf(context, request.reader.session_id)
                            ELSE RelevantOf(context, Lower(request.reader.current_query))]
    /\ request' = [request EXCEPT !.reader.pc = "done"]
    /\ UNCHANGED <<mock_data, use_mock_data, connection_status, es_client, now,
                   sessions>>

InitThreads ==
    InitWith({<<>>}, {[i \in 1..Len(Hosts) |-> "ping_raises"]}, ThreadRequests)

NextThreads ==
    \/ \E w \in Writers :
           \/ WriterBegin(w)
           \/ WriterAppend(w)
           \/ WriterTruncate(w)
           \/ WriterFinish(w)
    \/ ReaderGetContext
    \/ ReaderRead

SpecThreads == InitThreads /\ [][NextThreads]_vars

-----------------------------------------------------------------------------
(* The connector over several calls: queries, force_mock_mode, and the    *)
(* POST /siem/mock-mode endpoint of main.py                               *)

MaxQueries == 2     \* queries in one run of the connector
MaxToggles == 2     \* force_mock_mode and endpoint calls in one run

\* a mode switch that ignores enable = True
IgnoreEnable(conn, enable, whats) ==
    IF enable THEN conn
    ELSE _connect_to_opensearch([conn EXCEPT !.use_mock_data = FALSE], whats)

\* force_mock_mode(enable): the flag is set to enable; True also sets the
\* status, False reconnects, and a reconnect that fails on every host sets
\* the flag again
force_mock_mode(conn, enable, whats) ==
    IF enable
    THEN [conn EXCEPT !.use_mock_data = TRUE, !.connection_status = "mock_mode"]
    ELSE _connect_to_opensearch([conn EXCEPT !.use_mock_data = FALSE], whats)

\* toggle_mock_mode(enable) of main.py: the connector after force_mock_mode
\* and the body of the response
toggle_mock_mode(conn, enable, whats) ==
    [conn |-> force_mock_mode(conn, enable, whats),
     response |-> [status |-> 200, using_mock_data |-> enable]]

\* the queries the connector is given: track_total_hits absent, true, false
ConnectorQueries ==
    {[query |-> [bool |-> [must |-> <<CAll>>]]],
     [query |-> [bool |-> [must |-> <<CAll>>]], track_total_hits |-> TRUE],
     [query |-> [bool |-> [must |-> <<CTermId>>]], track_total_hits |-> FALSE]}

ConnectorRequests ==
    {[op |-> "connector", queries_left |-> MaxQueries, toggles_left |-> MaxToggles]}

\* a search of this call ended in a connection error
ConnectionFailed(searches, outcomes) ==
    \E i \in 1..Len(IndexPatterns) :
        /\ outcomes[i] = Raise("ConnectionError")
        /\ \E k \in 1..Len(searches) :
               searches[k].index = IndexPatterns[i] /\ searches[k].body # SamplerBody

\* what the run has seen so far: a connection failure (at startup, when the
\* constructor fell back, or in a query) since the last force_mock_mode(False),
\* and a force_mock_mode(True) since then
FailureSeen ==
    IF "failure_seen" \in DOMAIN last THEN last.failure_seen ELSE use_mock_data

MockForced == IF "mock_forced" \in DOMAIN last THEN last.mock_forced ELSE FALSE

\* query_siem(dsl_query)
ConnectorQuery(outcomes) ==
    /\ request.op = "connector"
    /\ request.queries_left > 0
    /\ \E dsl_query \in ConnectorQueries :
           \E r \in {query_siem(Conn, mock_data, dsl_query, outcomes)} :
               /\ last' = [op |-> "query", dsl_query |-> dsl_query,
                           outcomes |-> outcomes, out |-> r.out,
                           searches |-> r.searches, connected |-> Connected,
                           failure_before |-> FailureSeen,
                           failure_seen |->
                               FailureSeen \/ ConnectionFailed(r.searches, outcomes),
                           mock_forced |-> MockForced]
               /\ mock_data' = r.corpus
    /\ request' = [request EXCEPT !.queries_left = @ - 1]
    /\ UNCHANGED <<use_mock_data, connection_status, es_client, sessions, now>>

\* the connector's fields become those of conn
SetConnector(conn) ==
    /\ use_mock_data' = conn.use_mock_data
    /\ es_client' = conn.es_client
    /\ connection_status' = conn.connection_status

\* force_mock_mode(enable), called directly
ForceMockMode(enable, whats) ==
    /\ request.op = "connector"
    /\ request.toggles_left > 0
    /\ SetConnector(force_mock_mode(Conn, enable, whats))
    /\ last' = [op |-> "force_mock_mode", enable |-> enable, whats |-> whats,
                before |-> Conn, corpus_before |-> mock_data,
                failure_seen |-> IF enable THEN FailureSeen
                                 ELSE \A i \in 1..Len(Hosts) : whats[i] # "ok",
                mock_forced |-> enable]
    /\ request' = [request EXCEPT !.toggles_left = @ - 1]
    /\ UNCHANGED <<mock_data, sessions, now>>

\* POST /siem/mock-mode
ToggleMockMode(enable, whats) ==
    /\ request.op = "connector"
    /\ request.toggles_left > 0
    /\ \E t \in {toggle_mock_mode(Conn, enable, whats)} :
           /\ SetConnector(t.conn)
           /\ last' = [op |-> "toggle_mock_mode", enable |-> enable, whats |-> whats,
                       before |-> Conn, corpus_before |-> mock_data,
                       response |-> t.response,
                       failure_seen |-> IF enable THEN FailureSeen
                                        ELSE \A i \in 1..Len(Hosts) : whats[i] # "ok",
                       mock_forced |-> enable]
    /\ request' = [request EXCEPT !.toggles_left = @ - 1]
    /\ UNCHANGED <<mock_data, sessions, now>>

InitConnector ==
    InitWith({<<RecLogin, RecSudo>>}, [1..Len(Hosts) -> HostOutcomes],
             ConnectorRequests)

NextConnector ==
    \/ \E outcomes \in OutcomeChoices : ConnectorQuery(outcomes)
    \/ \E enable \in BOOLEAN, whats \in [1..Len(Hosts) -> HostOutcomes] :
           \/ ForceMockMode(enable, whats)
           \/ ToggleMockMode(enable, whats)

SpecConnector == InitConnector /\ [][NextConnector]_vars

-----------------------------------------------------------------------------
(* Claims about the Retry/Fallback Strategist *)

\* C1: for a failed-authentication question whose primary query finds no
\* hit in the corpus while the phrase-match candidate finds at least one,
\* the pipeline executes the primary query and then the phrase-match
\* candidate, in that order and once each, and answers with the candidate's
\* results under the label "phrases_message_description"; for any other
\* question the primary query is the only one executed.
C1_FirstCandidateWithHitsIsReturned ==
    LET failedAuth ==
            Contains(Lower(last.question), <<"f", "a", "i", "l", "e", "d", " ", "l", "o", "g", "i", "n">>)
        primary == generate_dsl_query(last.question, last.llm)
        phrases ==
            [track_total_hits |-> TRUE,
             query |-> [bool |-> [should |->
                 <<[match |-> <<[k |-> Path("rule", "description"),
                                 v |-> PyStrV(<<"f", "a", "i", "l", "e", "d">>)]>>],
                   [match |-> <<[k |-> <<"message">>,
                                 v |-> PyStrV(<<"f", "a", "i", "l", "e", "d">>)]>>]>>]]]
        onPrimary == _query_mock_data(mock_data, primary)
        onPhrases == _query_mock_data(mock_data, phrases)
    IN  (last.op = "handle_query" /\ last.executed # <<>> /\ ~Connected) =>
            /\ last.executed[1] = primary
            /\ ~failedAuth => Len(last.executed) = 1
            /\ (/\ failedAuth
                /\ onPrimary.ok /\ onPrimary.val.stats.total_hits = 0
                /\ onPhrases.ok /\ onPhrases.val.stats.total_hits > 0)
               => /\ Len(last.executed) = 2
                  /\ last.executed[2] = phrases
                  /\ last.response.status = 200
                  /\ last.response.results = onPhrases.val.results
                  /\ "strategy" \in DOMAIN last.response
                  /\ last.response.strategy = "phrases_message_description"

\* C2: a candidate whose execution raises does not end the sequence: for a
\* failed-authentication question whose primary query raises, a further
\* candidate is executed and the request is not answered with an error; and
\* when the only candidate of another question finds nothing, the answer is
\* that candidate with its empty result.
C2_ExhaustedCandidatesReturnLast ==
    LET failedAuth ==
            Contains(Lower(last.question), <<"f", "a", "i", "l", "e", "d", " ", "l", "o", "g", "i", "n">>)
        primary == generate_dsl_query(last.question, last.llm)
        onPrimary == _query_mock_data(mock_data, primary)
    IN  (last.op = "handle_query" /\ last.executed # <<>> /\ ~Connected) =>
            /\ (failedAuth /\ ~onPrimary.ok)
               => /\ Len(last.executed) >= 2
                  /\ last.response.status = 200
            /\ (~failedAuth /\ onPrimary.ok /\ onPrimary.val.stats.total_hits = 0)
               => /\ last.response.status = 200
                  /\ last.response.results = <<>>
                  /\ last.executed = <<primary>>
                  /\ last.response.query_stats.dsl_query = primary

-----------------------------------------------------------------------------
(* Claims about the Dataset Query Executor *)

\* the record satisfies the condition, evaluated on its own
Satisfies(record, condition) ==
    LET r == _apply_condition(<<record>>, condition)
    IN  r.ok /\ r.val = <<record>>

\* no condition of the list raises on the corpus
NoneRaises(corpus, conditions) ==
    \A i \in 1..Len(conditions) : _apply_condition(corpus, conditions[i]).ok

\* the query answered by the last step was a bool query
AnsweredBool ==
    /\ last.op = "query"
    /\ last.out.ok
    /\ "query" \in DOMAIN last.dsl_query
    /\ "bool" \in DOMAIN last.dsl_query["query"]

\* the clauses of the answered bool query under one key
Clauses(key) == GetOr(last.dsl_query["query"]["bool"], key, <<>>)

\* the answer holds exactly the corpus records with property P: every
\* returned record has it, and total_hits counts the corpus records that do
AnswerIsExactly(P(_)) ==
    /\ \A i \in 1..Len(last.out.val.results) :
           P(last.out.val.results[i].raw_data)
    /\ last.out.val.stats.total_hits =
           Cardinality({i \in 1..Len(mock_data) : P(mock_data[i])})

\* C3: every record in the answer to a bool query satisfies every must
\* clause, every filter clause and, when should is non-empty, at least one
\* should clause; in particular no record that fails a must clause is
\* returned when must and should are both non-empty.  Without a should list
\* total_hits counts the records that satisfy every must and filter clause.
C3_BoolGroupsAreConjoined ==
    LET conjoined(r) ==
            /\ \A i \in 1..Len(Clauses("must")) :
                   Satisfies(r, Clauses("must")[i])
            /\ \A i \in 1..Len(Clauses("filter")) :
                   Satisfies(r, Clauses("filter")[i])
            /\ Clauses("should") # <<>> =>
                   \E i \in 1..Len(Clauses("should")) :
                       Satisfies(r, Clauses("should")[i])
    IN  AnsweredBool =>
            /\ \A n \in 1..Len(last.out.val.results) :
                   conjoined(last.out.val.results[n].raw_data)
            /\ Clauses("should") = <<>> =>
                   last.out.val.stats.total_hits =
                       Cardinality({i \in 1..Len(mock_data) : conjoined(mock_data[i])})

\* C4: the answer to a bool query with a non-empty must_not list holds no
\* record that matches one of the must_not sub-queries.
C4_MustNotExcludes ==
    (AnsweredBool /\ Clauses("must_not") # <<>>) =>
        \A i \in 1..Len(last.out.val.results) :
            \A j \in 1..Len(Clauses("must_not")) :
                ~Satisfies(last.out.val.results[i].raw_data,
                           Clauses("must_not")[j])

\* C5: the answer to a query whose top-level node is term{F: V} holds
\* exactly the records whose deep-get of F equals V, and total_hits is
\* their number.
C5_TopLevelTermFilters ==
    (/\ last.op = "query"
     /\ "query" \in DOMAIN last.dsl_query
     /\ "term" \in DOMAIN last.dsl_query["query"]
     /\ last.dsl_query["query"]["term"] # <<>>
     /\ last.out.ok) =>
        AnswerIsExactly(
            LAMBDA r :
                _get_nested_value(r, last.dsl_query["query"]["term"][1].k)
                    = last.dsl_query["query"]["term"][1].v)

\* C6: a bool query with only a should list is answered, whatever identity
\* fields the corpus records carry, with exactly the records that match at
\* least one should clause, each record once.
C6_ShouldOnlyIsUnion ==
    LET bool == last.dsl_query["query"]["bool"]
        should == GetOr(bool, "should", <<>>)
        hit(r) == \E i \in 1..Len(should) : Satisfies(r, should[i])
        results == last.out.val.results
    IN  (/\ last.op = "query"
         /\ "query" \in DOMAIN last.dsl_query
         /\ "bool" \in DOMAIN last.dsl_query["query"]
         /\ should # <<>>
         /\ \A key \in {"must", "filter", "must_not"} : GetOr(bool, key, <<>>) = <<>>
         /\ NoneRaises(mock_data, should)
         /\ SortByTimestamp(mock_data, TRUE).ok) =>
            /\ last.out.ok
            /\ \A i \in 1..Len(results) : hit(results[i].raw_data)
            /\ \A i, j \in 1..Len(results) :
                   results[i].raw_data = results[j].raw_data => i = j
            /\ last.out.val.stats.total_hits =
                   Cardinality({mock_data[i] : i \in {i \in 1..Len(mock_data) :
                                                         hit(mock_data[i])}})

\* C7: a record satisfies match{F: V} iff its value at F is present and V,
\* lower-cased, is a substring of the lower-cased string form of that value;
\* a record without F never satisfies it.
C7_MatchNeverHoldsForAbsentField ==
    LET must == Clauses("must")
        field == must[1]["match"][1].k
        value == must[1]["match"][1].v
    IN  (/\ AnsweredBool
         /\ DOMAIN last.dsl_query["query"]["bool"] = {"must"}
         /\ Len(must) = 1
         /\ "match" \in DOMAIN must[1]
         /\ value.t = "str") =>
            AnswerIsExactly(
                LAMBDA r :
                    /\ _get_nested_value(r, field) # PyNone
                    /\ Contains(Lower(PyStr(_get_nested_value(r, field))),
                                Lower(value.s)))

\* C8: evaluating one well-formed condition (a non-empty body, a list of
\* values for terms) over a corpus never raises, and a condition with an
\* unrecognised key keeps every record.
C8_ConditionEvaluationIsTotal ==
    LET bool == last.dsl_query["query"]["bool"]
        c == bool["must"][1]
        known == {"match_all", "term", "terms", "match", "range"}
        wellFormed ==
            /\ \A key \in DOMAIN c \cap {"term", "terms", "match", "range"} :
                   c[key] # <<>>
            /\ "terms" \in DOMAIN c => c["terms"][1].v.t = "list"
    IN  (/\ last.op = "query"
         /\ "query" \in DOMAIN last.dsl_query
         /\ "bool" \in DOMAIN last.dsl_query["query"]
         /\ DOMAIN bool = {"must"}
         /\ Len(bool["must"]) = 1
         /\ wellFormed
         /\ SortByTimestamp(mock_data, TRUE).ok) =>
            /\ last.out.ok
            /\ DOMAIN c \cap known = {} =>
                   last.out.val.stats.total_hits = Len(mock_data)

\* C9: total_hits is the number of records that pass the filter, before
\* truncation; the results are the first size records (20 when the query
\* has no size) of the sorted filtered list, min(size, total_hits) of them.
C9_TotalHitsAndTruncation ==
    (last.op = "query" /\ last.out.ok) =>
        LET filtered == _apply_mock_filters(mock_data, last.dsl_query).val
            sorted == ApplySort(Ok(filtered), last.dsl_query).val
            size == IF "size" \in DOMAIN last.dsl_query
                    THEN last.dsl_query["size"] ELSE 20
            results == last.out.val.results
        IN  /\ last.out.val.stats.total_hits = Len(filtered)
            /\ Len(results) = Min(size, last.out.val.stats.total_hits)
            /\ \A i \in 1..Len(results) : results[i].raw_data = sorted[i]

\* C9 happens: a query without size on a corpus with more than 20 passing
\* records is answered with 20 results and the larger total.
C9_Witness ==
    /\ last.op = "query"
    /\ last.out.ok
    /\ "size" \notin DOMAIN last.dsl_query
    /\ Len(last.out.val.results) = 20
    /\ last.out.val.stats.total_hits > 20

\* the instant of a result's timestamp: local hour minus UTC offset
ResultInstant(result) ==
    LET s == result.timestamp.s
    IN  IF Len(s) = 1 \/ s[2] = "Z" THEN DigitVal(s[1])
        ELSE IF s[2] = "+" THEN DigitVal(s[1]) - DigitVal(s[3])
        ELSE DigitVal(s[1]) + DigitVal(s[3])

\* C10: with sort [{timestamp: desc}] or without a sort key, the instants of
\* adjacent results never increase; with order asc they never decrease.
C10_ResultsOrderedByInstant ==
    LET q == last.dsl_query
        results == last.out.val.results
        onTimestamp == "sort" \in DOMAIN q /\ q["sort"] # <<>>
                       /\ q["sort"][1].k = "timestamp"
                       /\ "order" \in DOMAIN q["sort"][1].v
        asc == onTimestamp /\ q["sort"][1].v["order"] = "asc"
        desc == "sort" \notin DOMAIN q
                \/ (onTimestamp /\ q["sort"][1].v["order"] = "desc")
    IN  (last.op = "query" /\ last.out.ok) =>
            /\ desc => \A i \in 1..(Len(results) - 1) :
                           ResultInstant(results[i]) >= ResultInstant(results[i + 1])
            /\ asc => \A i \in 1..(Len(results) - 1) :
                          ResultInstant(results[i]) <= ResultInstant(results[i + 1])

\* C10 happens: three results in descending order of instants whose
\* timestamp strings are not in descending order.
C10_Witness ==
    /\ last.op = "query"
    /\ last.out.ok
    /\ "sort" \notin DOMAIN last.dsl_query
    /\ Len(last.out.val.results) = 3
    /\ \E i \in 1..2 :
           /\ ResultInstant(last.out.val.results[i])
                  > ResultInstant(last.out.val.results[i + 1])
           /\ StrCmp(last.out.val.results[i].timestamp.s,
                     last.out.val.results[i + 1].timestamp.s) = -1

\* the record has no timestamp, or one that datetime.fromisoformat rejects
MalformedTimestamp(record) ==
    \/ "timestamp" \notin DOMAIN record.d
    \/ ~FromIsoFormat(ReplaceZ(record.d["timestamp"].s)).ok

\* C11: a query that sorts on timestamp (explicitly or by default), run on
\* a corpus in which some record has a missing or unparseable timestamp, is
\* answered without raising whenever its filter does not raise.
C11_MalformedTimestampsNeverRaise ==
    LET q == last.dsl_query
        sortsOnTimestamp ==
            \/ "sort" \notin DOMAIN q
            \/ (q["sort"] # <<>> /\ q["sort"][1].k = "timestamp")
    IN  (/\ last.op = "query"
         /\ sortsOnTimestamp
         /\ \E i \in 1..Len(last.before) : MalformedTimestamp(last.before[i])
         /\ _apply_mock_filters(last.before, q).ok) =>
            last.out.ok

-----------------------------------------------------------------------------
(* The context store: C14 to C20 *)

SessionIdsOf(ss) == {ss[i].session_id : i \in 1..Len(ss)}

\* C13: whatever the interleaving of add_to_context with the readers, no
\* reader sees a session with more than 10 history entries, and no session
\* id has two contexts in the registry.
C13_ReadersSeeAtMostTen ==
    /\ (last.op = "get_session_summary" /\ "total_queries" \in DOMAIN last.out) =>
           last.out.total_queries <= HistoryLimit
    /\ last.op = "get_relevant_context" => Len(last.out) <= HistoryLimit
    /\ Cardinality(SessionIdsOf(sessions)) = Len(sessions)

\* the run records for one session that nothing clears and that cannot have
\* expired: every entry recorded so far went to that session
OneLivingSession ==
    /\ request.op = "store"
    /\ Cardinality(request.ids) = 1
    /\ "clear_context" \notin request.ops
    /\ now <= SessionTimeout

\* C14: after n add_to_context calls for one session that does not expire,
\* the history is the last min(n, 10) recorded entries in recording order;
\* after 15 calls it holds the 6th to the 15th.
C14_HistoryIsLastTen ==
    (OneLivingSession /\ request.calls > 0) =>
        /\ Len(sessions) = 1
        /\ LET history == sessions[1].history
               n == request.calls
           IN  /\ Len(history) = Min(n, 10)
               /\ \A k \in 1..Len(history) :
                      history[k].result_count = n - Len(history) + k
               /\ n = 15 => /\ history[1].result_count = 6
                            /\ history[10].result_count = 15
               /\ last.op = "add_to_context" => history[Len(history)] = last.entry

\* C14 happens: the 15th call has been made
C14_Witness ==
    /\ OneLivingSession
    /\ request.calls = 15
    /\ last.op = "add_to_context"
    /\ Len(sessions[1].history) = 10

\* C15: with max_sessions >= 1 the registry never holds more than
\* max_sessions sessions, whatever was recorded, read or cleared, and no
\* two of them have the same id.
C15_RegistryIsBounded ==
    request.op = "store" =>
        /\ Len(sessions) <= request.max_sessions
        /\ Cardinality(SessionIdsOf(sessions)) = Len(sessions)

\* C15 happens: three distinct ids were recorded with max_sessions = 2
C15_Witness ==
    /\ request.op = "store"
    /\ request.max_sessions = 2
    /\ last.op = "add_to_context"
    /\ Len(last.before) = 2
    /\ last.session_id \notin SessionIdsOf(last.before)
    /\ \A i \in 1..2 : ~Expired(last.before[i], now)
    /\ Len(sessions) = 2

\* the registry holds max_sessions sessions, none of them expired
FullAndAlive(ss) ==
    /\ Len(ss) = request.max_sessions
    /\ \A i \in 1..Len(ss) : ~Expired(ss[i], now)

\* C16: recording a new session in a registry that holds max_sessions
\* sessions, none expired, removes exactly one of them, one whose
\* last_updated is the least; recording to a session that is there removes
\* none.
C16_EvictsOneOldest ==
    (last.op = "add_to_context" /\ FullAndAlive(last.before)) =>
        IF last.session_id \in SessionIdsOf(last.before)
        THEN SessionIdsOf(sessions) = SessionIdsOf(last.before)
        ELSE \E i \in 1..Len(last.before) :
                 /\ \A j \in 1..Len(last.before) :
                        last.before[i].last_updated <= last.before[j].last_updated
                 /\ SessionIdsOf(sessions) \ {last.session_id} =
                        SessionIdsOf(last.before) \ {last.before[i].session_id}
                 /\ \A j \in 1..Len(last.before) :
                        j # i => \E k \in 1..Len(sessions) :
                                     sessions[k] = last.before[j]

\* C16 happens: a new session was recorded in a full registry of two
\* sessions of different age
C16_Witness ==
    /\ last.op = "add_to_context"
    /\ FullAndAlive(last.before)
    /\ Len(last.before) = 2
    /\ last.before[1].last_updated > last.before[2].last_updated
    /\ last.session_id \notin SessionIdsOf(last.before)
    /\ SessionIdsOf(sessions) = {last.session_id, last.before[1].session_id}

\* how long the session that get_context was asked for had been idle
IdleTime == now - SessionOf(last.before, last.session_id).last_updated

\* C17: get_context on a session that has been idle for more than the
\* timeout returns None and deletes the session in the same call; on a
\* session idle for the timeout or less it returns the context and keeps it.
C17_ExpiryOnRead ==
    (last.op = "get_context" /\ HasSession(last.before, last.session_id)) =>
        IF IdleTime > SessionTimeout
        THEN /\ last.out = PyNone
             /\ sessions = DelSession(last.before, last.session_id)
             /\ ~HasSession(sessions, last.session_id)
        ELSE /\ last.out = SessionOf(last.before, last.session_id)
             /\ sessions = last.before

\* C17 happens: a session idle for exactly the timeout was read and kept
C17_Witness ==
    /\ last.op = "get_context"
    /\ HasSession(last.before, last.session_id)
    /\ IdleTime = SessionTimeout
    /\ HasSession(sessions, last.session_id)

\* the clauses of the filter and must lists of a query
FilterAndMust(dsl_query) ==
    GetOr(QueryBool(dsl_query), "filter", <<>>)
        \o GetOr(QueryBool(dsl_query), "must", <<>>)

\* the active filter a clause stands for, by the rule of C18
SlotOf(cond) ==
    IF "range" \in DOMAIN cond /\ cond["range"] # <<>>
    THEN IF cond["range"][1].k \in {<<"timestamp">>, <<"@timestamp">>}
         THEN <<"time_range">>
         ELSE IF cond["range"][1].k = Path("rule", "level")
         THEN <<"severity_filter">> ELSE <<>>
    ELSE IF "term" \in DOMAIN cond /\ cond["term"] # <<>>
    THEN <<"filter_">> \o cond["term"][1].k
    ELSE IF "terms" \in DOMAIN cond /\ cond["terms"] # <<>>
              /\ cond["terms"][1].k = Path("rule", "groups")
    THEN <<"rule_groups">>
    ELSE <<>>

\* the values the clauses of a query give for one active filter
Carried(dsl_query, slot) ==
    {(IF "range" \in DOMAIN cond THEN cond["range"][1].v
      ELSE IF "term" \in DOMAIN cond THEN cond["term"][1].v
      ELSE cond["terms"][1].v) :
        cond \in {c \in {FilterAndMust(dsl_query)[i] :
                           i \in 1..Len(FilterAndMust(dsl_query))} :
                     SlotOf(c) = slot}}

Slots ==
    {<<"time_range">>, <<"severity_filter">>, <<"rule_groups">>,
     <<"filter_", "rule", ".", "id">>}

\* C18: after two add_to_context calls on a session, both with a query
\* that carries a range on a time field in filter or must, time_range is
\* the range of the second query alone; the same holds for
\* severity_filter, filter_<field> and rule_groups.
C18_SecondQueryOverwrites ==
    (/\ last.op = "add_to_context"
     /\ last.out.ok
     /\ Len(last.out.val.history) >= 2) =>
        LET history == last.out.val.history
            first == history[Len(history) - 1].dsl_query
            second == history[Len(history)].dsl_query
        IN  \A slot \in Slots :
                (Carried(first, slot) # {} /\ Cardinality(Carried(second, slot)) = 1) =>
                    /\ slot \in DOMAIN last.out.val.active_filters
                    /\ Carried(second, slot) = {last.out.val.active_filters[slot]}
                    /\ HasSession(sessions, last.session_id)
                    /\ SessionOf(sessions, last.session_id).active_filters
                           = last.out.val.active_filters

\* C18 happens: two queries with different time ranges were recorded
C18_Witness ==
    /\ last.op = "add_to_context"
    /\ last.out.ok
    /\ Len(last.out.val.history) >= 2
    /\ LET history == last.out.val.history
       IN  /\ Carried(history[Len(history) - 1].dsl_query, <<"time_range">>)
                  = {[gte |-> PyInt(1)]}
           /\ Carried(history[Len(history)].dsl_query, <<"time_range">>)
                  = {[gte |-> PyInt(2)]}
    /\ last.out.val.active_filters[<<"time_range">>] = [gte |-> PyInt(2)]

\* the score of an entry for the query asked, word set against word set
\* without regard to case, as numerator and denominator
Overlap(entry) ==
    LET words1 == WordSet(Lower(last.current_query))
        words2 == WordSet(Lower(entry.query))
    IN  [num |-> IF words1 = {} \/ words2 = {} THEN 0
                 ELSE Cardinality(words1 \cap words2),
         den |-> IF words1 = {} \/ words2 = {} THEN 1
                 ELSE Cardinality(words1 \cup words2)]

\* the history that get_relevant_context found, empty for a session that
\* is unknown or has expired
HistoryRead ==
    IF HasSession(last.before, last.session_id)
       /\ now - SessionOf(last.before, last.session_id).last_updated <= SessionTimeout
    THEN SessionOf(last.before, last.session_id).history
    ELSE <<>>

\* C19: get_relevant_context returns at most 3 entries, each one of the
\* last 5 of the history with a score strictly above 0.3, ordered by
\* (timestamp, score) descending; for an unknown or expired session it
\* returns the empty list.
C19_RelevantContext ==
    last.op = "get_relevant_context" =>
        LET out == last.out
            n == Len(HistoryRead)
        IN  /\ Len(out) <= 3
            /\ \A i \in 1..Len(out) :
                   /\ \E k \in 1..n : k > n - 5 /\ HistoryRead[k] = out[i]
                   /\ 10 * Overlap(out[i]).num > 3 * Overlap(out[i]).den
            /\ \A i, j \in 1..Len(out) :
                   i < j =>
                       \/ out[i].timestamp > out[j].timestamp
                       \/ /\ out[i].timestamp = out[j].timestamp
                          /\ Overlap(out[i]).num * Overlap(out[j]).den
                                 >= Overlap(out[j]).num * Overlap(out[i]).den
            /\ HistoryRead = <<>> => out = <<>>

\* C19 happens: three entries came back from a history of six whose first
\* entry scores above the threshold and whose last five hold entries
\* below it
C19_Witness ==
    /\ last.op = "get_relevant_context"
    /\ Len(last.out) = 3
    /\ Len(HistoryRead) = 6
    /\ 10 * Overlap(HistoryRead[1]).num > 3 * Overlap(HistoryRead[1]).den
    /\ \E k \in 2..6 : 10 * Overlap(HistoryRead[k]).num <= 3 * Overlap(HistoryRead[k]).den
    /\ last.out[1].timestamp > last.out[3].timestamp

\* C20: no operation of the store raises, whatever the session id and the
\* query, clauses with an empty body included; an unknown id gives None,
\* False, the empty list or the not-found summary.
C20_StoreNeverRaises ==
    /\ last.op = "add_to_context" => last.out.ok
    /\ (last.op = "get_context" /\ ~HasSession(last.before, last.session_id)) =>
           last.out = PyNone
    /\ (last.op = "clear_context" /\ ~HasSession(last.before, last.session_id)) =>
           last.out = FALSE
    /\ (last.op = "get_relevant_context"
          /\ ~HasSession(last.before, last.session_id)) => last.out = <<>>
    /\ (last.op = "get_session_summary"
          /\ ~HasSession(last.before, last.session_id)) =>
           last.out = [error |-> "Session not found"]

-----------------------------------------------------------------------------
(* The connector and the endpoints: C21 to C30 *)

\* the query of the last call went to the backend
BackendQuery == last.op = "query" /\ last.connected

\* the searches of the query loop, without the zero-hit sampler
LoopSearches ==
    SelectSeq(last.searches, LAMBDA search : search.body # SamplerBody)

\* pattern i answered with hits
Accepts(i) == last.outcomes[i].ok /\ HitCount(last.outcomes[i].val.total) > 0

\* the number of patterns that have to be searched: up to the first that
\* answers with hits, all of them when none does
LastSearched ==
    IF \E i \in 1..Len(IndexPatterns) : Accepts(i)
    THEN CHOOSE i \in 1..Len(IndexPatterns) :
             Accepts(i) /\ \A j \in 1..(i - 1) : ~Accepts(j)
    ELSE Len(IndexPatterns)

\* the patterns among the first n whose search gave a response
RECURSIVE Answered(_)
Answered(n) ==
    IF n = 0 THEN <<>>
    ELSE IF last.outcomes[n].ok THEN Append(Answered(n - 1), IndexPatterns[n])
    ELSE Answered(n - 1)

\* C21: the backend executor searches the index patterns in their
\* configured order, goes on after a pattern whose search raises, and
\* returns the hits of the first pattern whose total is above zero; no
\* pattern after that one is searched.
C21_FirstPatternWithHits ==
    BackendQuery =>
        /\ Len(LoopSearches) = LastSearched
        /\ \A k \in 1..Len(LoopSearches) : LoopSearches[k].index = IndexPatterns[k]
        /\ Accepts(LastSearched) =>
               /\ last.out.ok
               /\ last.searches = LoopSearches
               /\ last.out.val.stats.total_hits
                      = HitCount(last.outcomes[LastSearched].val.total)
               /\ Len(last.out.val.results)
                      = Len(last.outcomes[LastSearched].val.hits)
               /\ \A k \in 1..Len(last.out.val.results) :
                      last.out.val.results[k].event_id
                          = last.outcomes[LastSearched].val.hits[k]["_id"]
               /\ last.out.val.stats.indices_searched = Answered(LastSearched)

\* C21 happens: the first pattern raised and the second answered with hits
C21_Witness ==
    /\ BackendQuery
    /\ ~last.outcomes[1].ok
    /\ Accepts(2)
    /\ Len(last.searches) = 2
    /\ last.out.ok
    /\ Len(last.out.val.results) > 0

AnsweredFromCorpus ==
    /\ last.searches = <<>>
    /\ last.out = _query_mock_data(mock_data, last.dsl_query)
    /\ last.out.ok => last.out.val.stats.indices_searched = <<"mock-data">>

\* C23: once a connection failure has happened, at startup or in a query
\* of a connected connector, that query is answered by the dataset executor,
\* and the queries after it are answered by the dataset executor and send
\* nothing to the backend, until force_mock_mode(False) is called.
C23_FailureDowngradesForGood ==
    /\ (last.op = "query" /\ last.failure_seen)
           => last.out = _query_mock_data(mock_data, last.dsl_query)
    /\ (last.op = "query" /\ last.failure_before) => AnsweredFromCorpus

\* C25: after force_mock_mode(True) every query is answered by the dataset
\* executor (indices_searched = ["mock-data"]) and sends nothing to the
\* backend, until force_mock_mode(False); the call keeps the client object
\* and the corpus.
C25_ForcedMockMode ==
    /\ (last.op = "query" /\ last.mock_forced) => AnsweredFromCorpus
    /\ (last.op \in {"force_mock_mode", "toggle_mock_mode"} /\ last.enable) =>
           /\ es_client = last.before.es_client
           /\ mock_data = last.corpus_before
           /\ ~Connected

\* C25 happens: a connector that started connected and met no failure was
\* forced to mock mode and then queried
C25_Witness ==
    /\ last.op = "query"
    /\ last.mock_forced
    /\ ~last.failure_before
    /\ es_client
    /\ last.out.ok
    /\ last.out.val.stats.indices_searched = <<"mock-data">>

\* C30: the using_mock_data that POST /siem/mock-mode reports is the
\* connector's use_mock_data flag after the call, for enable true and
\* false, also when the reconnect fails on every host.
C30_ToggleReportsTheFlag ==
    last.op = "toggle_mock_mode" =>
        /\ last.response.status = 200
        /\ last.response.using_mock_data = use_mock_data

\* C24: when the translator gives no usable query (nothing, or an
\* exception), the handler reports that no query could be built and runs
\* no query; it does not run a query guessed from the question's keywords.
C24_NoGuessedQuery ==
    (last.op = "handle_query" /\ last.llm.kind \in {"no_key", "bad_json", "raises"}) =>
        /\ last.executed = <<>>
        /\ last.searches = <<>>
        /\ last.response.status # 200

\* C26: every body sent to the backend by the query loop has
\* track_total_hits = true, whether the translated query had the key
\* absent, true or false.
C26_TrackTotalHitsForced ==
    last.op = "handle_query" =>
        \A k \in 1..Len(last.searches) :
            last.searches[k].body # SamplerBody =>
                /\ "track_total_hits" \in DOMAIN last.searches[k].body
                /\ last.searches[k].body["track_total_hits"] = TRUE

\* the session a call names, as the call found it
Found == SessionOf(last.before, last.session_id)

\* the call named a session the registry holds and that has not expired
FoundAlive ==
    /\ HasSession(last.before, last.session_id)
    /\ ~Expired(Found, now)

\* C27: GET /context/{session_id} for an id that is unknown or has expired
\* answers 404, session not found, and leaves no session of that id behind
C27_UnknownSessionIsNotFound ==
    (last.op = "get_conversation_context" /\ ~FoundAlive)
        => /\ last.response.status = 404
           /\ ~HasSession(sessions, last.session_id)

\* C28: an add_to_context call that raises leaves the registry as it found
\* it, apart from the expired sessions it removed
C28_AddIsAllOrNothing ==
    (last.op = "add_to_context" /\ ~last.out.ok)
        => sessions = _cleanup_expired_sessions(last.before, now)

\* C29: a read of a session that has not expired leaves the registry as it
\* was, last_updated included; a read made more than session_timeout after
\* the last entry was added finds the session gone and removes it
C29_ReadsDoNotRefresh ==
    (last.op \in ReadOps /\ HasSession(last.before, last.session_id))
        => /\ FoundAlive => sessions = last.before
           /\ (Found.history # <<>>
                  /\ now - Found.history[Len(Found.history)].timestamp
                         > SessionTimeout)
                  => ~HasSession(sessions, last.session_id)

\* a read of a session that has been idle for a while and is still alive
C29_Witness ==
    /\ last.op \in ReadOps
    /\ FoundAlive
    /\ now > Found.last_updated
    /\ sessions = last.before

====
